---- MODULE Spec2Model ----
(***************************************************************************)
(* Model of litellm/proxy/utils.py: the ProxyLogging hook pipeline         *)
(* (pre_call_hook, during_call_hook, the post-call hooks) and the spend    *)
(* write buffer (ProxyUpdateSpend.update_spend_logs,                       *)
(* ProxyUpdateSpend.update_end_user_spend).                                *)
(*                                                                         *)
(* The specifications share the variables:                                 *)
(*   Spec           the hook pipeline of ProxyLogging                      *)
(*   SpecFlush      update_spend / update_spend_logs on the write buffer   *)
(*   SpecEndUser    update_end_user_spend against the end-user table       *)
(*   SpecLifecycle  the lifecycle of a request                             *)
(*   SpecFailure    post_call_failure_hook                                 *)
(*   SpecLock       the distributed lock of the spend update job           *)
(*   SpecAlert      alerting_handler                                       *)
(*   SpecHang       the hanging-request check                              *)
(*   SpecStartup    startup_event                                          *)
(*   SpecProjection the two budget projections                             *)
(*   SpecStore      the PrismaClient operations under backoff              *)
(*   SpecJsonify    jsonify_object                                         *)
(*   SpecInsert     PrismaClient.insert_data                               *)
(*   SpecKey        is_valid_api_key                                       *)
(*   SpecOverlap    two invocations of update_spend_logs on one buffer     *)
(*   SpecSettings   update_values and the hanging-request check            *)
(* Each leaves the variables of the others at their initial value.         *)
(***************************************************************************)
EXTENDS Integers, Sequences, FiniteSets, TLC

VARIABLES
    \* ---- hook pipeline (ProxyLogging) ----
    callbacks,        \* litellm.callbacks: the registered hooks, in registration order
    phase,            \* the hook function the request is inside, or "idle"
    idx,              \* position of the `for callback in litellm.callbacks` loop
    data,             \* the request context threaded through the loop
    call_type,        \* the call_type argument of the running hook function
    request,          \* the data argument the hook function was called with
    calls,            \* handler invocations made by the running (or last) hook function
    gated,            \* hooks passed over because should_run_guardrail was not True
    llm_response,     \* the response argument (chunk, iterator) threaded through a post-call loop
    result,           \* how the last hook function ended
    slack_alerting,   \* slack_alerting_instance.alerting is not None
    hanging_check,    \* a response_taking_too_long task was created for the request
    \* ---- spend write buffer (PrismaClient / ProxyUpdateSpend.update_spend_logs) ----
    spend_log_transactions,  \* PrismaClient.spend_log_transactions, the write buffer
    use_writer,       \* SPEND_LOGS_URL is set and db_writer_client is not None
    fpc,              \* where update_spend_logs is suspended, or "idle"
    logs_to_process,  \* the snapshot taken by update_spend_logs
    i,                \* the attempt counter of `for i in range(n_retry_times + 1)`
    j,                \* the offset of the sub-batch being written
    spendlogs_table,  \* rows of the durable spend-log table
    acked,            \* request ids whose commit the store (or the writer) acknowledged
    sleeps,           \* the asyncio.sleep durations of the running (or last) flush
    flush_result,     \* how the last update_spend_logs ended
    failure_tasks,    \* failure_handler tasks created and not yet run
    db_alerts,        \* AlertType.db_exceptions in self.alert_types
    alert_tasks,      \* alerting_handler tasks created by failure_handler
    reported,         \* call types handed to the service failure hook
    during,           \* entries recorded while the running (or last) flush was in progress
    end_user_list_transactions,  \* end_user_id -> response_cost of the running update
    endusertable,     \* litellm_endusertable: user_id -> spend, Absent without a row
    epc,              \* where update_end_user_spend is suspended: "idle", "tx", "sleep"
    ei,               \* update_end_user_spend's retry counter i
    esleeps,          \* its asyncio.sleep arguments so far
    eu_result,        \* how the last update_end_user_spend ended
    recorded,         \* end_user_id -> cost handed to update_end_user_spend so far
    updates,          \* update_end_user_spend calls started
    start_buffer,     \* the buffer when the running (or last) flush started
    start_next,       \* next_id when the running (or last) flush started
    next_id,          \* the request id of the next spend log entry
    flushes,          \* update_spend cycles started
    redis_cache,      \* pod_lock_manager.redis_cache is set
    lock,             \* the distributed lock token: NoLock or [owner, live]
    pod,              \* instance -> "idle", "updating", "crashed"
    cycle,            \* instance -> parity and outcome of its last periodic tick
    took_over,        \* instances that acquired the token of a crashed owner
    lifecycle,        \* the lifecycle state of the request
    trail,            \* the lifecycle states the request has been in, in order
    rejections,       \* hook functions in which a hook rejected the request
    alerting,         \* self.alerting is not None
    llm_alerts,       \* AlertType.llm_exceptions in self.alert_types
    fail_pc,          \* where post_call_failure_hook is
    failure,          \* its arguments: exception, error type, route, request_data at entry
    litellm_call_id,  \* request_data["litellm_call_id"], Absent without one
    request_status,   \* internal_usage_cache: the request_status entries set
    exception_alerts, \* alerting_handler tasks created by post_call_failure_hook
    async_logged,     \* litellm_logging_obj.async_failure_handler calls
    sync_logged,      \* threads started on litellm_logging_obj.failure_handler
    failure_callbacks, \* the async_post_call_failure_hook tasks, in creation order
    \* ---- alerting_handler ----
    clients,          \* self.alerting when it is not None: the channel names, in order
    sentry_sdk_instance, \* litellm.utils.sentry_sdk_instance is not None
    alert_pc,         \* where alerting_handler is: "idle", "loop", "done"
    alert_idx,        \* position of `for client in self.alerting`
    alert_args,       \* its level and alert_type arguments
    alert_sends,      \* what the loop did for the clients it reached, in order
    alert_result,     \* how alerting_handler ended: "none", "returned", "raised"
    \* ---- hanging-request check ----
    now,              \* the local monotonic clock
    hang_started,     \* correlation ids pre_call_hook was invoked for
    hang_pending,     \* response_taking_too_long tasks not yet run: [id, at]
    status_cache,     \* internal_usage_cache: the request_status entries [key, value, expires]
    terminal,         \* correlation ids update_request_status was called for
    hang_checked,     \* the checks that ran: [id, terminal, alert]
    \* ---- startup_event ----
    slack_alert_types,              \* slack_alerting_instance.alert_types, of the two loops' types
    daily_report_started,           \* self.daily_report_started
    hanging_requests_check_started, \* self.hanging_requests_check_started
    loop_tasks,                     \* the loop tasks created: [kind, startup], in creation order
    startups,                       \* startup_event calls so far
    \* ---- budget projection ----
    today,             \* date.today(): [month, day, leap]
    current_spend,     \* the current_spend argument
    soft_budget_limit, \* the soft_budget_limit argument: [none, value]
    is_over,           \* how _is_projected_spend_over_limit ended
    get_over,          \* how _get_projected_spend_over_limit ended
    \* ---- PrismaClient operations ----
    op,                \* the operation the caller awaits, "none" when none
    op_pc,             \* "idle", "attempt", "failed", "done"
    op_tries,          \* attempts the backoff decorator has made
    op_reports,        \* failure_handler tasks created: [call_type, duration, ran]
    op_result,         \* what the caller got: "none", "returned", "raised"
    \* ---- jsonify_object ----
    json_in,           \* the data argument
    json_out,          \* what jsonify_object returned, or the exception it raised
    \* ---- insert_data ----
    db_rows,           \* the rows of each table insert_data writes to
    first_insert,      \* per table, the data of the insert_data call that created each row
    insert_last,       \* the last insert_data call: its table, data, outcome, the table before
    inserts,           \* insert_data calls so far
    \* ---- is_valid_api_key ----
    api_key,           \* the key argument of the last call
    key_valid,         \* what is_valid_api_key returned for it
    \* ---- store writes of update_spend_logs ----
    attempt_writes,    \* the sub-batches handed to create_many in the running (or last) attempt
    table_count,       \* request id -> rows the spend-log table holds for it
    skipped_rows,      \* request ids create_many was handed while the table had their row
    \* ---- overlapping update_spend_logs ----
    ov_buffer,         \* PrismaClient.spend_log_transactions
    ov_pc,             \* per invocation: "idle", "create_many", "sleep", "returned", "raised"
    ov_logs,           \* per invocation: its logs_to_process
    ov_i,              \* per invocation: its attempt counter i
    ov_j,              \* per invocation: the offset j of its sub-batch
    ov_next,           \* the id of the next spend log entry to be recorded
    ov_snapshotted,    \* request ids that were in the snapshot of some invocation
    ov_lost,           \* request ids removed from the buffer that were in no snapshot
    ov_overlapped,     \* an invocation started while the other one was suspended
    \* ---- jsonify_object applied to its own result ----
    json_twice         \* what jsonify_object returned for the record it had returned

hookVars == <<callbacks, phase, idx, data, call_type, request, calls, gated,
              llm_response, result, slack_alerting, hanging_check>>

flushVars == <<spend_log_transactions, use_writer, fpc, logs_to_process, i, j,
               spendlogs_table, acked, sleeps, flush_result, failure_tasks, db_alerts,
               alert_tasks, reported, during, start_buffer, start_next, next_id, flushes>>

endUserVars == <<end_user_list_transactions, endusertable, epc, ei, esleeps, eu_result,
                 recorded, updates>>

lockVars == <<redis_cache, lock, pod, cycle, took_over>>

lifecycleVars == <<lifecycle, trail, rejections>>

failureVars == <<alerting, llm_alerts, fail_pc, failure, litellm_call_id, request_status,
                 exception_alerts, async_logged, sync_logged, failure_callbacks>>

alertVars == <<clients, sentry_sdk_instance, alert_pc, alert_idx, alert_args, alert_sends,
               alert_result>>

hangVars == <<now, hang_started, hang_pending, status_cache, terminal, hang_checked>>

startupVars == <<slack_alert_types, daily_report_started, hanging_requests_check_started,
                 loop_tasks, startups>>

projectionVars == <<today, current_spend, soft_budget_limit, is_over, get_over>>

storeVars == <<op, op_pc, op_tries, op_reports, op_result>>

jsonifyVars == <<json_in, json_out>>

serviceVars == <<alertVars, hangVars, startupVars, projectionVars, storeVars, jsonifyVars>>

insertVars == <<db_rows, first_insert, insert_last, inserts>>

keyVars == <<api_key, key_valid>>

writeVars == <<attempt_writes, table_count, skipped_rows>>

overlapVars == <<ov_buffer, ov_pc, ov_logs, ov_i, ov_j, ov_next, ov_snapshotted, ov_lost, ov_overlapped>>

rejsonifyVars == <<json_twice>>

extVars == <<insertVars, keyVars, writeVars, overlapVars, rejsonifyVars>>

auxVars == <<lockVars, lifecycleVars, failureVars, serviceVars, extVars>>

\* auxVars without the history of the store writes.
flushAuxVars == <<lockVars, lifecycleVars, failureVars, serviceVars, insertVars, keyVars, overlapVars, rejsonifyVars>>

vars == <<hookVars, flushVars, endUserVars, auxVars>>

--------------------------------------------------------------------------
(* Bounds *)
MaxHooks == 2
\* Spend log entries recorded in a run, and update_spend cycles in a run.
MaxEntries == 5
MaxFlushes == 2
MaxUpdates == 2
MaxCrashes == 1

--------------------------------------------------------------------------
(* Values *)

NoneVal == "None"
Absent == "<absent>"
Models == {"gpt-a"}

\* A request dict; its "model" key may be missing.
Contexts == [model : Models \cup {Absent}]

\* data: Optional[dict]
NoneData == [model |-> NoneVal]

\* data.get("model", "")
DataGetModel(d) == IF d.model = Absent THEN "" ELSE d.model

Messages == {"blocked", "denied"}

\* call_type: Literal[...] of pre_call_hook
PreCallTypes == {"completion", "text_completion", "embeddings", "image_generation",
                 "moderation", "audio_transcription", "pass_through_endpoint", "rerank"}

\* What a handler can hand back: None, a dict, a str, an Exception object,
\* any other object; or it raises.
Resp(k, m, v) == [kind |-> k, msg |-> m, value |-> v]

RespNone == Resp("none", "", NoneData)

PreCallResponses ==
    {RespNone, Resp("other", "", NoneData)}
    \cup {Resp("dict", "", c) : c \in Contexts}
    \cup {Resp(k, m, NoneData) : k \in {"str", "exc", "raise"}, m \in Messages}

\* Exceptions
Exc(t, m, mdl, st) == [type |-> t, message |-> m, model |-> mdl, status_code |-> st]
NoExc == Exc("none", "", "", 0)
HookException(m) == Exc("Exception", m, "", 0)
RejectedRequestError(m, mdl) == Exc("RejectedRequestError", m, mdl, 0)
HTTPException(st, m) == Exc("HTTPException", m, "", st)

\* A response object: the provider's response followed by the hooks whose
\* handler produced a new object from it (a transformed chunk, a wrapping
\* iterator), innermost first.
OriginalResponse == <<>>
NoResponse == <<0>>

\* How a hook function ended: what it returned (a context or a response) or
\* what it raised.
Returned(f, v) == [of |-> f, kind |-> "returned", value |-> v,
                   response |-> NoResponse, exc |-> NoExc]
ReturnedResponse(f, rsp) == [of |-> f, kind |-> "returned", value |-> NoneData,
                             response |-> rsp, exc |-> NoExc]
Raised(f, e) == [of |-> f, kind |-> "raised", value |-> NoneData,
                 response |-> NoResponse, exc |-> e]
NoResult == [of |-> "none", kind |-> "none", value |-> NoneData,
             response |-> NoResponse, exc |-> NoExc]

--------------------------------------------------------------------------
(* Hooks *)

\* A registered callback as the hook functions see it:
\*   isStr      registered by name, resolved by get_custom_logger_compatible_class
\*   cls        what it is (or resolves to): a CustomGuardrail, another
\*              CustomLogger, or nothing the hook functions call ("None")
\*   overrides  its class defines async_pre_call_hook itself
\*   legacy     event_hook is None and it has a moderation_check attribute:
\*              "pre_call", another value ("in_parallel"), or no marker ("none")
HookPool ==
    {h \in [isStr : BOOLEAN, cls : {"Guardrail", "Logger", "None"},
            overrides : BOOLEAN, legacy : {"none", "pre_call", "in_parallel"}] :
        /\ h.cls = "None" => (h.isStr /\ ~h.overrides /\ h.legacy = "none")
        /\ h.cls = "Logger" => h.legacy = "none"
        /\ h.cls = "Guardrail" => h.overrides}

HookSeqs == UNION {[1..n -> HookPool] : n \in 0..MaxHooks}

\* A handler invocation: which hook, for which event, the context it was
\* given, what should_run_guardrail(data, event) is for it, what it returned.
Call(hk, ev, d, g, r) == [hook |-> hk, event |-> ev, data |-> d, run |-> g, resp |-> r]

--------------------------------------------------------------------------
(* process_pre_call_hook_response *)

Processed(raised, e, d) == [raised |-> raised, exc |-> e, data |-> d]

\* Faulty variants of process_pre_call_hook_response.
\* A returned Exception object is not raised: the request continues.
process_response_swallowing_exception(response, d, ct) ==
    CASE response.kind = "dict" -> Processed(FALSE, NoExc, response.value)
      [] response.kind = "str" ->
            IF ct \in {"completion", "text_completion"}
            THEN Processed(TRUE, RejectedRequestError(response.msg, DataGetModel(d)), d)
            ELSE Processed(TRUE, HTTPException(400, response.msg), d)
      [] OTHER -> Processed(FALSE, NoExc, d)

\* A returned dict is dropped: the loop keeps the context it had.
process_response_dropping_dict(response, d, ct) ==
    CASE response.kind = "exc" -> Processed(TRUE, HookException(response.msg), d)
      [] response.kind = "str" ->
            IF ct \in {"completion", "text_completion"}
            THEN Processed(TRUE, RejectedRequestError(response.msg, DataGetModel(d)), d)
            ELSE Processed(TRUE, HTTPException(400, response.msg), d)
      [] OTHER -> Processed(FALSE, NoExc, d)

\* A string rejects only the generation call types.
process_response_str_only_generation(response, d, ct) ==
    CASE response.kind = "exc" -> Processed(TRUE, HookException(response.msg), d)
      [] response.kind = "dict" -> Processed(FALSE, NoExc, response.value)
      [] response.kind = "str" /\ ct \in {"completion", "text_completion"} ->
            Processed(TRUE, RejectedRequestError(response.msg, DataGetModel(d)), d)
      [] OTHER -> Processed(FALSE, NoExc, d)

process_pre_call_hook_response(response, d, ct) ==
    CASE response.kind = "exc" -> Processed(TRUE, HookException(response.msg), d)
      [] response.kind = "dict" -> Processed(FALSE, NoExc, response.value)
      [] response.kind = "str" ->
            IF ct \in {"completion", "text_completion"}
            THEN Processed(TRUE, RejectedRequestError(response.msg, DataGetModel(d)), d)
            ELSE Processed(TRUE, HTTPException(400, response.msg), d)
      [] OTHER -> Processed(FALSE, NoExc, d)

--------------------------------------------------------------------------
(* pre_call_hook *)

\* The two branches of the loop body that await async_pre_call_hook.
PreCallInvokes(h, g) ==
    \/ h.cls = "Guardrail" /\ g
    \/ h.cls = "Logger" /\ h.overrides

\* _init_response_taking_too_long_task
InitResponseTakingTooLongTask == slack_alerting

PreCallStart ==
    /\ phase = "idle"
    /\ \E d \in Contexts \cup {NoneData}, ct \in PreCallTypes :
        /\ hanging_check' = InitResponseTakingTooLongTask
        /\ calls' = <<>>
        /\ gated' = {}
        /\ call_type' = ct
        /\ request' = d
        /\ data' = d
        /\ idx' = 1
        /\ llm_response' = NoResponse
        /\ IF d = NoneData
           THEN /\ phase' = "done"
                /\ result' = Returned("pre_call_hook", NoneData)
           ELSE /\ phase' = "pre_call"
                /\ result' = NoResult
    /\ UNCHANGED <<auxVars, flushVars, endUserVars, callbacks, slack_alerting>>

PreCallStep ==
    /\ phase = "pre_call"
    /\ idx <= Len(callbacks)
    /\ LET h == callbacks[idx] IN
       \E g \in (IF h.cls = "Guardrail" THEN BOOLEAN ELSE {TRUE}) :
         IF ~PreCallInvokes(h, g)
         THEN /\ idx' = idx + 1
              /\ gated' = IF h.cls = "Guardrail" THEN gated \cup {idx} ELSE gated
              /\ UNCHANGED <<phase, data, calls, result>>
         ELSE \E r \in PreCallResponses :
              /\ calls' = Append(calls, Call(idx, "pre_call", data, g, r))
              /\ UNCHANGED gated
              /\ IF r.kind = "raise"
                 THEN /\ result' = Raised("pre_call_hook", HookException(r.msg))
                      /\ phase' = "done"
                      /\ UNCHANGED <<idx, data>>
                 ELSE IF r.kind = "none"
                 THEN /\ idx' = idx + 1
                      /\ UNCHANGED <<phase, data, result>>
                 ELSE LET out == process_pre_call_hook_response(r, data, call_type) IN
                      IF out.raised
                      THEN /\ result' = Raised("pre_call_hook", out.exc)
                           /\ phase' = "done"
                           /\ UNCHANGED <<idx, data>>
                      ELSE /\ data' = out.data
                           /\ idx' = idx + 1
                           /\ UNCHANGED <<phase, result>>
    /\ UNCHANGED <<auxVars, flushVars, endUserVars, callbacks, call_type, request, llm_response, slack_alerting,
                   hanging_check>>

PreCallReturn ==
    /\ phase = "pre_call"
    /\ idx > Len(callbacks)
    /\ result' = Returned("pre_call_hook", data)
    /\ phase' = "done"
    /\ UNCHANGED <<auxVars, flushVars, endUserVars, callbacks, idx, data, call_type, request, calls, gated, llm_response,
                   slack_alerting, hanging_check>>

--------------------------------------------------------------------------
(* Loop steps shared by the hook functions below *)

\* The loop goes on to the next callback without awaiting a handler.
LoopContinue ==
    /\ idx' = idx + 1
    /\ UNCHANGED <<phase, data, calls, gated, llm_response, result>>

\* should_run_guardrail(...) is not True: continue
LoopGated ==
    /\ idx' = idx + 1
    /\ gated' = gated \cup {idx}
    /\ UNCHANGED <<phase, data, calls, llm_response, result>>

\* The handler raised (or the function returns early): the function ends.
LoopEnds(res) ==
    /\ result' = res
    /\ phase' = "done"
    /\ UNCHANGED <<idx, data, gated, llm_response>>

\* should_run_guardrail(data, event) of callback h: only a guardrail has one.
ShouldRunValues(h) == IF h.cls = "Guardrail" THEN BOOLEAN ELSE {TRUE}

HookFrame == UNCHANGED <<auxVars, flushVars, endUserVars, callbacks, call_type, request, slack_alerting, hanging_check>>

\* What a handler whose return value the caller drops can do.
IgnoredResponses ==
    {RespNone, Resp("other", "", NoneData)} \cup {Resp("raise", m, NoneData) : m \in Messages}

--------------------------------------------------------------------------
(* during_call_hook *)

DuringCallTypes == {"completion", "responses", "embeddings", "image_generation",
                    "moderation", "audio_transcription"}

\* The branch the loop body takes for callback h, g being
\* should_run_guardrail(data, during_call).
DuringCallBranch(h, g) ==
    IF h.isStr \/ h.cls # "Guardrail" THEN "next"
    ELSE IF h.legacy # "none"
         THEN (IF h.legacy = "pre_call" THEN "return" ELSE "invoke")
         ELSE (IF g THEN "invoke" ELSE "gated")

DuringCallStart ==
    /\ phase = "idle"
    /\ \E d \in Contexts, ct \in DuringCallTypes :
        /\ data' = d
        /\ request' = d
        /\ call_type' = ct
    /\ phase' = "during_call"
    /\ idx' = 1
    /\ calls' = <<>>
    /\ gated' = {}
    /\ result' = NoResult
    /\ UNCHANGED <<auxVars, flushVars, endUserVars, callbacks, llm_response, slack_alerting, hanging_check>>

DuringCallStep ==
    /\ phase = "during_call"
    /\ idx <= Len(callbacks)
    /\ LET h == callbacks[idx] IN
       \E g \in ShouldRunValues(h) :
         LET b == DuringCallBranch(h, g) IN
         CASE b = "next" -> LoopContinue
           [] b = "gated" -> LoopGated
           [] b = "return" ->
                /\ LoopEnds(Returned("during_call_hook", NoneData))
                /\ UNCHANGED calls
           [] OTHER ->
                \E r \in IgnoredResponses :
                  /\ calls' = Append(calls, Call(idx, "during_call", data, g, r))
                  /\ IF r.kind = "raise"
                     THEN LoopEnds(Raised("during_call_hook", HookException(r.msg)))
                     ELSE /\ idx' = idx + 1
                          /\ UNCHANGED <<phase, data, gated, llm_response, result>>
    /\ HookFrame

DuringCallReturn ==
    /\ phase = "during_call"
    /\ idx > Len(callbacks)
    /\ LoopEnds(Returned("during_call_hook", data))
    /\ UNCHANGED calls
    /\ HookFrame

--------------------------------------------------------------------------
(* post_call_success_hook *)

\* g is should_run_guardrail(data, post_call). The guardrail test is made on
\* `callback`, the logger test on the resolved `_callback`.
PostCallSuccessBranch(h, g) ==
    IF h.cls = "None" THEN "next"
    ELSE IF ~h.isStr /\ h.cls = "Guardrail"
         THEN (IF g THEN "invoke" ELSE "gated")
         ELSE "invoke"

\* A faulty variant: the handler's exception is swallowed and the loop goes
\* on with the next callback.
PostCallSuccessSwallows(r) == FALSE

\* except Exception as e: raise e -- whatever the handler raises leaves the
\* loop and the function.
PostCallSuccessReraises(r) == r.kind = "raise"

PostCallSuccessStart ==
    /\ phase = "idle"
    /\ \E d \in Contexts :
        /\ data' = d
        /\ request' = d
    /\ llm_response' = OriginalResponse
    /\ phase' = "post_call_success"
    /\ idx' = 1
    /\ calls' = <<>>
    /\ gated' = {}
    /\ result' = NoResult
    /\ UNCHANGED <<auxVars, flushVars, endUserVars, callbacks, call_type, slack_alerting, hanging_check>>

PostCallSuccessStep ==
    /\ phase = "post_call_success"
    /\ idx <= Len(callbacks)
    /\ LET h == callbacks[idx] IN
       \E g \in ShouldRunValues(h) :
         LET b == PostCallSuccessBranch(h, g) IN
         CASE b = "next" -> LoopContinue
           [] b = "gated" -> LoopGated
           [] OTHER ->
                \E r \in IgnoredResponses :
                  /\ calls' = Append(calls, Call(idx, "post_call", data, g, r))
                  /\ IF PostCallSuccessReraises(r)
                     THEN LoopEnds(Raised("post_call_success_hook", HookException(r.msg)))
                     ELSE /\ idx' = idx + 1
                          /\ UNCHANGED <<phase, data, gated, llm_response, result>>
    /\ HookFrame

PostCallSuccessReturn ==
    /\ phase = "post_call_success"
    /\ idx > Len(callbacks)
    /\ LoopEnds(ReturnedResponse("post_call_success_hook", llm_response))
    /\ UNCHANGED calls
    /\ HookFrame

--------------------------------------------------------------------------
(* async_post_call_streaming_hook: per chunk *)

StreamingHookBranch(h, g) ==
    IF ~h.isStr /\ h.cls = "Guardrail" /\ ~g THEN "gated"
    ELSE IF h.cls \in {"Guardrail", "Logger"} THEN "invoke"
    ELSE "next"

\* has_str: response is a ModelResponse or ModelResponseStream, so that
\* response_str is not None.
StreamingHookStart ==
    /\ phase = "idle"
    /\ \E d \in Contexts, has_str \in BOOLEAN :
        /\ data' = d
        /\ request' = d
        /\ IF has_str
           THEN /\ phase' = "streaming_hook"
                /\ result' = NoResult
           ELSE /\ phase' = "done"
                /\ result' = ReturnedResponse("async_post_call_streaming_hook",
                                              OriginalResponse)
    /\ llm_response' = OriginalResponse
    /\ idx' = 1
    /\ calls' = <<>>
    /\ gated' = {}
    /\ UNCHANGED <<auxVars, flushVars, endUserVars, callbacks, call_type, slack_alerting, hanging_check>>

StreamingHookStep ==
    /\ phase = "streaming_hook"
    /\ idx <= Len(callbacks)
    /\ LET h == callbacks[idx] IN
       \E g \in ShouldRunValues(h) :
         LET b == StreamingHookBranch(h, g) IN
         CASE b = "next" -> LoopContinue
           [] b = "gated" -> LoopGated
           [] OTHER ->
                \E r \in IgnoredResponses :
                  /\ calls' = Append(calls, Call(idx, "post_call", data, g, r))
                  /\ IF r.kind = "raise"
                     THEN LoopEnds(Raised("async_post_call_streaming_hook",
                                          HookException(r.msg)))
                     ELSE /\ idx' = idx + 1
                          /\ UNCHANGED <<phase, data, gated, llm_response, result>>
    /\ HookFrame

StreamingHookReturn ==
    /\ phase = "streaming_hook"
    /\ idx > Len(callbacks)
    /\ LoopEnds(ReturnedResponse("async_post_call_streaming_hook", llm_response))
    /\ UNCHANGED calls
    /\ HookFrame

--------------------------------------------------------------------------
(* post_call_streaming_hook: the response string so far *)

\* isinstance(callback, CustomLogger), on the callback as registered.
StreamingStrInvokes(h) == ~h.isStr /\ h.cls \in {"Guardrail", "Logger"}

\* The function has no data argument: the handlers get the response only.
StreamingStrStart ==
    /\ phase = "idle"
    /\ \E d \in Contexts :
        /\ data' = d
        /\ request' = d
    /\ llm_response' = OriginalResponse
    /\ phase' = "streaming_str"
    /\ idx' = 1
    /\ calls' = <<>>
    /\ gated' = {}
    /\ result' = NoResult
    /\ UNCHANGED <<auxVars, flushVars, endUserVars, callbacks, call_type, slack_alerting, hanging_check>>

StreamingStrStep ==
    /\ phase = "streaming_str"
    /\ idx <= Len(callbacks)
    /\ LET h == callbacks[idx] IN
       IF ~StreamingStrInvokes(h)
       THEN LoopContinue
       ELSE \E g \in ShouldRunValues(h), r \in IgnoredResponses :
              /\ calls' = Append(calls, Call(idx, "post_call", data, g, r))
              /\ IF r.kind = "raise"
                 THEN LoopEnds(Raised("post_call_streaming_hook", HookException(r.msg)))
                 ELSE /\ idx' = idx + 1
                      /\ UNCHANGED <<phase, data, gated, llm_response, result>>
    /\ HookFrame

StreamingStrReturn ==
    /\ phase = "streaming_str"
    /\ idx > Len(callbacks)
    /\ LoopEnds(ReturnedResponse("post_call_streaming_hook", llm_response))
    /\ UNCHANGED calls
    /\ HookFrame

--------------------------------------------------------------------------
(* async_post_call_streaming_iterator_hook: once per stream *)

StreamingIteratorBranch(h, g) ==
    IF h.cls \in {"Guardrail", "Logger"}
    THEN (IF h.cls # "Guardrail" \/ g THEN "invoke" ELSE "gated")
    ELSE "next"

\* The handler returns an iterator over the one it was given, returns the
\* one it was given, or raises.
IteratorResponses ==
    {Resp("wrap", "", NoneData), Resp("same", "", NoneData)}
    \cup {Resp("raise", m, NoneData) : m \in Messages}

\* A faulty variant: every handler is handed the provider's iterator.
WrapOriginal(cur, hk, r) ==
    IF r.kind = "wrap" THEN Append(OriginalResponse, hk) ELSE OriginalResponse

\* response = _callback.async_post_call_streaming_iterator_hook(response=response):
\* the handler is handed the iterator the loop holds and the loop holds
\* what it returns.
WrapResponse(cur, hk, r) ==
    IF r.kind = "wrap" THEN Append(cur, hk) ELSE cur

StreamingIteratorStart ==
    /\ phase = "idle"
    /\ \E d \in Contexts :
        /\ data' = d
        /\ request' = d
    /\ llm_response' = OriginalResponse
    /\ phase' = "streaming_iterator"
    /\ idx' = 1
    /\ calls' = <<>>
    /\ gated' = {}
    /\ result' = NoResult
    /\ UNCHANGED <<auxVars, flushVars, endUserVars, callbacks, call_type, slack_alerting, hanging_check>>

StreamingIteratorStep ==
    /\ phase = "streaming_iterator"
    /\ idx <= Len(callbacks)
    /\ LET h == callbacks[idx] IN
       \E g \in ShouldRunValues(h) :
         LET b == StreamingIteratorBranch(h, g) IN
         CASE b = "next" -> LoopContinue
           [] b = "gated" -> LoopGated
           [] OTHER ->
                \E r \in IteratorResponses :
                  /\ calls' = Append(calls, Call(idx, "post_call", data, g, r))
                  /\ IF r.kind = "raise"
                     THEN LoopEnds(Raised("async_post_call_streaming_iterator_hook",
                                          HookException(r.msg)))
                     ELSE /\ idx' = idx + 1
                          /\ llm_response' = WrapResponse(llm_response, idx, r)
                          /\ UNCHANGED <<phase, data, gated, result>>
    /\ HookFrame

StreamingIteratorReturn ==
    /\ phase = "streaming_iterator"
    /\ idx > Len(callbacks)
    /\ LoopEnds(ReturnedResponse("async_post_call_streaming_iterator_hook", llm_response))
    /\ UNCHANGED calls
    /\ HookFrame

--------------------------------------------------------------------------
(* The hook function has returned or raised; the next one starts afresh. *)

\* The caller has the result of the hook function: nothing of the call is
\* left.
ResetHook ==
    /\ phase' = "idle"
    /\ idx' = 1
    /\ data' = NoneData
    /\ call_type' = "completion"
    /\ request' = NoneData
    /\ calls' = <<>>
    /\ gated' = {}
    /\ llm_response' = NoResponse
    /\ result' = NoResult
    /\ hanging_check' = FALSE

HookDone ==
    /\ phase = "done"
    /\ ResetHook
    /\ UNCHANGED <<auxVars, flushVars, endUserVars, callbacks, slack_alerting>>

--------------------------------------------------------------------------
(* post_call_failure_hook *)

\* The callbacks as far as post_call_failure_hook tells them apart.
FailureHookSeqs ==
    {cs \in HookSeqs : \A k \in 1..Len(cs) : cs[k].legacy = "none" /\ cs[k].overrides = (cs[k].cls # "None")}

\* original_exception: an HTTPException or not; error_type;
\* user_api_key_dict.request_route: None, an LLM API route or another one;
\* request_data: its litellm_call_id and whether it has a
\* litellm_logging_obj.
Failures ==
    [http : BOOLEAN, error_type : {"auth_error", "other"},
     request_route : {NoneVal, "llm_api", "management"},
     call_id : {Absent, "id-1"}, logging_obj : BOOLEAN]

NoFailure == [http |-> FALSE, error_type |-> "other", request_route |-> NoneVal,
              call_id |-> Absent, logging_obj |-> FALSE]

\* str(uuid.uuid4())
Uuid4 == "uuid4"

\* A faulty variant: the status is filed under one key for all requests.
RequestStatusKeyFixed(id) == "request_status:"

\* "request_status:{}".format(request_data.get("litellm_call_id", ""))
RequestStatusKey(id) == IF id = Absent THEN "request_status:" ELSE "request_status:" \o id

\* A faulty variant: the alert does not look at the exception.
AlertOnAnyException(f, enabled) == enabled

\* AlertType.llm_exceptions in self.alert_types and
\* not isinstance(original_exception, HTTPException)
AlertsOnException(f, enabled) == enabled /\ ~f.http

\* A faulty variant: the route is not looked at.
IsProxyOnlyErrorAnyRoute(f) == f.http \/ f.error_type = "auth_error"

\* _is_proxy_only_llm_api_error(original_exception, error_type,
\* route=user_api_key_dict.request_route)
_is_proxy_only_llm_api_error(f) ==
    IF f.request_route = NoneVal THEN FALSE
    ELSE IF f.request_route # "llm_api" THEN FALSE
    ELSE f.http \/ f.error_type = "auth_error"

\* A faulty variant: only the first callback gets its task.
FirstFailureCallback(cs) ==
    IF \E k \in 1..Len(cs) : cs[k].cls # "None"
    THEN <<CHOOSE k \in 1..Len(cs) : cs[k].cls # "None" /\ \A n \in 1..(k - 1) : cs[n].cls = "None">>
    ELSE <<>>

\* The callbacks that resolve to a CustomLogger, in registration order.
RECURSIVE FailureCallbackIndexes(_)
FailureCallbackIndexes(cs) ==
    IF cs = <<>> THEN <<>>
    ELSE LET front == FailureCallbackIndexes(SubSeq(cs, 1, Len(cs) - 1)) IN
         IF cs[Len(cs)].cls # "None" THEN Append(front, Len(cs)) ELSE front

FailureFrame == UNCHANGED <<serviceVars, extVars, lockVars, lifecycleVars, hookVars, flushVars,
                            endUserVars, alerting, llm_alerts>>

\* post_call_failure_hook is called.
PostCallFailureStart ==
    /\ fail_pc = "idle"
    /\ \E f \in Failures :
          /\ failure' = f
          /\ litellm_call_id' = f.call_id
    /\ fail_pc' = "status"
    /\ UNCHANGED <<request_status, exception_alerts, async_logged, sync_logged,
                   failure_callbacks>>
    /\ FailureFrame

\* update_request_status(litellm_call_id, "fail"): nothing without
\* alerting, else the cache entry is set.
UpdateRequestStatus ==
    /\ fail_pc = "status"
    /\ request_status' =
          IF alerting
          THEN request_status \cup {[key |-> RequestStatusKey(litellm_call_id), value |-> "fail"]}
          ELSE request_status
    /\ fail_pc' = "alert"
    /\ UNCHANGED <<failure, litellm_call_id, exception_alerts, async_logged, sync_logged,
                   failure_callbacks>>
    /\ FailureFrame

\* The alerting_handler task for an exception that is not an HTTPException.
ExceptionAlert ==
    /\ fail_pc = "alert"
    /\ exception_alerts' =
          IF AlertsOnException(failure, llm_alerts)
          THEN Append(exception_alerts, [level |-> "High", alert_type |-> "llm_exceptions"])
          ELSE exception_alerts
    /\ fail_pc' = "logging"
    /\ UNCHANGED <<failure, litellm_call_id, request_status, async_logged, sync_logged,
                   failure_callbacks>>
    /\ FailureFrame

\* _handle_logging_proxy_only_error up to the await of
\* async_failure_handler, when the error is a proxy-only LLM API error.
ProxyOnlyErrorLogging ==
    /\ fail_pc = "logging"
    /\ IF _is_proxy_only_llm_api_error(failure)
       THEN /\ litellm_call_id' = IF failure.logging_obj THEN litellm_call_id ELSE Uuid4
            /\ async_logged' = async_logged + 1
            /\ fail_pc' = "async_failure_handler"
       ELSE /\ fail_pc' = "callbacks"
            /\ UNCHANGED <<litellm_call_id, async_logged>>
    /\ UNCHANGED <<failure, request_status, exception_alerts, sync_logged, failure_callbacks>>
    /\ FailureFrame

\* async_failure_handler has returned: the thread on failure_handler.
AsyncFailureHandlerDone ==
    /\ fail_pc = "async_failure_handler"
    /\ sync_logged' = sync_logged + 1
    /\ fail_pc' = "callbacks"
    /\ UNCHANGED <<failure, litellm_call_id, request_status, exception_alerts, async_logged,
                   failure_callbacks>>
    /\ FailureFrame

\* The loop over litellm.callbacks creates a task for every CustomLogger;
\* then the function returns.
ScheduleFailureCallbacks ==
    /\ fail_pc = "callbacks"
    /\ failure_callbacks' =
          LET ks == FailureCallbackIndexes(callbacks) IN
          [n \in 1..Len(ks) |-> [hook |-> ks[n], state |-> "pending"]]
    /\ fail_pc' = "returned"
    /\ UNCHANGED <<failure, litellm_call_id, request_status, exception_alerts, async_logged,
                   sync_logged>>
    /\ FailureFrame

\* The event loop starts the k-th async_post_call_failure_hook task.
FailureCallbackStarts(k) ==
    /\ k \in 1..Len(failure_callbacks)
    /\ failure_callbacks[k].state = "pending"
    /\ failure_callbacks' = [failure_callbacks EXCEPT ![k].state = "running"]
    /\ UNCHANGED <<fail_pc, failure, litellm_call_id, request_status, exception_alerts,
                   async_logged, sync_logged>>
    /\ FailureFrame

\* The k-th task returns or raises; a task that never completes stays
\* running.
FailureCallbackEnds(k) ==
    /\ k \in 1..Len(failure_callbacks)
    /\ failure_callbacks[k].state = "running"
    /\ \E outcome \in {"done", "raised"} :
          failure_callbacks' = [failure_callbacks EXCEPT ![k].state = outcome]
    /\ UNCHANGED <<fail_pc, failure, litellm_call_id, request_status, exception_alerts,
                   async_logged, sync_logged>>
    /\ FailureFrame

--------------------------------------------------------------------------
(* The lifecycle of a request *)

\* A hook of the running function answered with a rejection: a raise, or
\* in pre-call a str or a returned exception.
HookRejected ==
    \E k \in 1..Len(calls) :
        \/ calls[k].resp.kind = "raise"
        \/ calls[k].event = "pre_call" /\ calls[k].resp.kind \in {"str", "exc"}

\* The state after a hook phase: REJECTED when the hook function raised.
AfterPhase(res, next) == IF res.kind = "raised" THEN "REJECTED" ELSE next

LifecycleFrame == UNCHANGED <<serviceVars, extVars, failureVars, lockVars, flushVars, endUserVars, callbacks, slack_alerting>>

\* The route handler takes the request into the pre-call phase.
EnterPreCall ==
    /\ lifecycle = "RECEIVED"
    /\ phase = "idle"
    /\ lifecycle' = "PRE_CALL"
    /\ trail' = Append(trail, "PRE_CALL")
    /\ UNCHANGED <<serviceVars, extVars, failureVars, lockVars, hookVars, flushVars, endUserVars, rejections>>

\* pre_call_hook is called for the request.
LifecyclePreCallStart == lifecycle = "PRE_CALL" /\ PreCallStart

\* during_call_hook is called for the request.
LifecycleDuringCallStart == lifecycle = "DURING_CALL" /\ DuringCallStart

\* pre_call_hook has returned or raised.
AfterPreCall ==
    /\ lifecycle = "PRE_CALL"
    /\ phase = "done"
    /\ result.of = "pre_call_hook"
    /\ lifecycle' = AfterPhase(result, "DURING_CALL")
    /\ trail' = Append(trail, lifecycle')
    /\ rejections' = IF HookRejected THEN rejections \cup {result.of} ELSE rejections
    /\ ResetHook
    /\ LifecycleFrame

\* during_call_hook has returned or raised.
AfterDuringCall ==
    /\ lifecycle = "DURING_CALL"
    /\ phase = "done"
    /\ result.of = "during_call_hook"
    /\ lifecycle' = AfterPhase(result, "DISPATCHED")
    /\ trail' = Append(trail, lifecycle')
    /\ rejections' = IF HookRejected THEN rejections \cup {result.of} ELSE rejections
    /\ ResetHook
    /\ LifecycleFrame

\* The provider call ends.
DispatchEnds ==
    /\ lifecycle = "DISPATCHED"
    /\ \E outcome \in {"SUCCESS", "FAILURE"} :
          /\ lifecycle' = outcome
          /\ trail' = Append(trail, outcome)
    /\ UNCHANGED <<serviceVars, extVars, failureVars, lockVars, hookVars, flushVars, endUserVars, rejections>>

\* The cost of the request is recorded.
Account ==
    /\ lifecycle \in {"SUCCESS", "FAILURE"}
    /\ lifecycle' = "ACCOUNTED"
    /\ trail' = Append(trail, "ACCOUNTED")
    /\ UNCHANGED <<serviceVars, extVars, failureVars, lockVars, hookVars, flushVars, endUserVars, rejections>>

\* The next request is received.
NextRequest ==
    /\ lifecycle \in {"ACCOUNTED", "REJECTED"}
    /\ lifecycle' = "RECEIVED"
    /\ trail' = <<"RECEIVED">>
    /\ rejections' = {}
    /\ UNCHANGED <<serviceVars, extVars, failureVars, lockVars, hookVars, flushVars, endUserVars>>

--------------------------------------------------------------------------
(* Spend log entries and jsonify_object *)

\* A field value: a scalar, a nested dict (ok: json.dumps accepts it), the
\* JSON string of a dict, or the marker string.
Scalar(n) == [tag |-> "scalar", ok |-> TRUE, v |-> n]
Dict(ok, n) == [tag |-> "dict", ok |-> ok, v |-> n]
JsonDumps(x) == [tag |-> "json", ok |-> TRUE, v |-> x.v]
FailedToSerialize == [tag |-> "failed-to-serialize-json", ok |-> TRUE, v |-> 0]

\* A nested dict holding an object that json.dumps rejects and
\* copy.deepcopy cannot copy (a lock, an open file, a generator).
DictUncopyable(n) == [tag |-> "dict_uncopyable", ok |-> FALSE, v |-> n]

\* copy.deepcopy(data) raises TypeError.
DeepcopyRaises(row) == \E k \in DOMAIN row : row[k].tag = "dict_uncopyable"

\* What jsonify_object raised, in place of the row it would have returned.
JsonifyRaised(e) == [raised |-> Scalar(0), exc |-> [tag |-> e, ok |-> FALSE, v |-> 0]]

\* db_data = copy.deepcopy(data); then db_data[k] = json.dumps(v) for every
\* dict-valued field, the marker when json.dumps raises; the other fields
\* are kept.
jsonify_object(row) ==
    IF DeepcopyRaises(row) THEN JsonifyRaised("TypeError")
    ELSE [k \in DOMAIN row |->
            IF row[k].tag = "dict"
            THEN (IF row[k].ok THEN JsonDumps(row[k]) ELSE FailedToSerialize)
            ELSE row[k]]

\* jsonify_object applied to one record.
FieldNames == {"a", "b", "c"}

FieldValues == {Scalar(1), Scalar(2), Dict(TRUE, 1), Dict(FALSE, 1), DictUncopyable(1)}

Records == [FieldNames -> FieldValues]

NotJsonified == <<>>

\* A faulty variant: db_data is the data argument itself.
NoCopy(row) == [same_object |-> TRUE, value |-> row]

\* db_data = copy.deepcopy(data): a new object with the same fields.
DeepCopy(row) == [same_object |-> FALSE, value |-> row]

\* The data argument after the call: the assignments db_data[k] = ... are
\* made to it only if db_data is the same object.
DataAfterJsonify(row) ==
    IF ~DeepcopyRaises(row) /\ DeepCopy(row).same_object
    THEN jsonify_object(DeepCopy(row).value)
    ELSE row

JsonifyObject ==
    /\ json_out = NotJsonified
    /\ json_out' = jsonify_object(json_in)
    /\ json_in' = DataAfterJsonify(json_in)
    /\ UNCHANGED <<extVars, hookVars, flushVars, endUserVars, lockVars, lifecycleVars, failureVars,
                   alertVars, hangVars, startupVars, projectionVars, storeVars>>

\* jsonify_object called with the record it returned.
JsonifyAgain ==
    /\ json_out # NotJsonified
    /\ json_out # JsonifyRaised("TypeError")
    /\ json_twice = NotJsonified
    /\ json_twice' = jsonify_object(json_out)
    /\ UNCHANGED <<json_in, json_out>>
    /\ UNCHANGED <<hookVars, flushVars, endUserVars, lockVars, lifecycleVars, failureVars,
                   alertVars, hangVars, startupVars, projectionVars, storeVars,
                   insertVars, keyVars, writeVars, overlapVars>>

\* The spend log payload of request n; every second one carries metadata
\* that json.dumps rejects.
Entry(n) == [request_id |-> Scalar(n), metadata |-> Dict(n % 2 = 1, n)]

RequestId(e) == e.request_id.v
Ids(seq) == {RequestId(seq[k]) : k \in 1..Len(seq)}

Min(a, b) == IF a < b THEN a ELSE b
\* seq[:n] and seq[n:]
Take(seq, n) == SubSeq(seq, 1, Min(n, Len(seq)))
Drop(seq, n) == SubSeq(seq, Min(n, Len(seq)) + 1, Len(seq))

--------------------------------------------------------------------------
(* update_spend / ProxyUpdateSpend.update_spend_logs *)

\* BATCH_SIZE and MAX_LOGS_PER_INTERVAL are 100 and 1000 in the source; the
\* model keeps their roles (sub-batch size, snapshot size) at a scale TLC
\* can enumerate.
BATCH_SIZE == 2
MAX_LOGS_PER_INTERVAL == 3
\* update_spend: n_retry_times = 3
n_retry_times == 3

\* 2**i
RECURSIVE Pow2(_)
Pow2(n) == IF n = 0 THEN 1 ELSE 2 * Pow2(n - 1)

\* A faulty variant of the retry test: one attempt too many.
RetryOnceMore(attempt, n) == attempt <= n

\* `if i >= n_retry_times: raise`, else sleep and go round again.
RetryAgain(attempt, n) == attempt < n
\* asyncio.sleep(2**i)
Backoff(attempt) == Pow2(attempt)

FlushReturned == [kind |-> "returned", exc |-> "none"]
\* The writer answered with a status other than 200: break, return.
FlushNotAccepted == [kind |-> "returned", exc |-> "status"]
FlushRaised(e) == [kind |-> "raised", exc |-> e]
FlushRunning == [kind |-> "none", exc |-> "none"]

\* litellm_spendlogs.create_many(data=rows, skip_duplicates=True)
CreateMany(table, rows) ==
    table \cup {rows[k] : k \in {n \in 1..Len(rows) :
                    \A t \in table : t.request_id # rows[n].request_id}}

\* The entries handed to create_many whose request_id has a row already.
Duplicates(counts, ids) == {n \in ids : counts[n] > 0}

\* A faulty variant: create_many without skip_duplicates writes a row for
\* every entry it is handed.
RowsAfterCreateManyAll(counts, ids) ==
    [n \in DOMAIN counts |-> IF n \in ids THEN counts[n] + 1 ELSE counts[n]]

\* The rows per request id after create_many(data, skip_duplicates=True):
\* an entry whose request_id has a row is skipped.
RowsAfterCreateMany(counts, ids) ==
    [n \in DOMAIN counts |-> IF n \in ids /\ counts[n] = 0 THEN 1 ELSE counts[n]]

\* A faulty variant: the whole buffer is cleared after a flush.
RemoveWholeBuffer(buffer, logs) == <<>>

\* spend_log_transactions[len(logs_to_process):]
RemovePrefix(buffer, logs) == Drop(buffer, Len(logs))

\* A faulty variant: the prefix is removed whatever the writer answered.
AfterPostAlways(buffer, logs, status) == Drop(buffer, Len(logs))

\* `if response.status_code == 200:` the prefix is removed from the buffer.
AfterPost(buffer, logs, status) ==
    IF status = 200 THEN RemovePrefix(buffer, logs) ELSE buffer

\* A faulty variant: the snapshot is the whole buffer.
SnapshotWholeBuffer(buffer) == buffer

\* spend_log_transactions[:MAX_LOGS_PER_INTERVAL]
Snapshot(buffer) == Take(buffer, MAX_LOGS_PER_INTERVAL)

\* A faulty variant: the loop over the sub-batches stops after the first.
FirstBatchIsLast(logs, off) == TRUE

\* `for j in range(0, len(logs_to_process), BATCH_SIZE)` has no next j.
NoMoreBatches(logs, off) == off + BATCH_SIZE >= Len(logs)

\* A faulty variant: the failure is raised without a failure_handler task.
SwallowFailure(tasks, e) == tasks

\* _raise_failed_update_spend_exception: asyncio.create_task(
\* failure_handler(original_exception=e, call_type="update_spend", ...)).
ReportFailure(tasks, e) == Append(tasks, [call_type |-> "update_spend", exc |-> e])

\* A faulty variant: the sub-batch runs to the end of the snapshot.
BatchToEnd(logs, off) == SubSeq(logs, off + 1, Len(logs))

\* The sub-batch logs_to_process[j : j + BATCH_SIZE]
Batch(logs, off) == SubSeq(logs, off + 1, Min(off + BATCH_SIZE, Len(logs)))

\* The await the attempt reaches first: the writer's post, or create_many
\* for the first sub-batch.
AttemptAwaits(logs) ==
    IF Len(logs) > 0 /\ use_writer THEN "post" ELSE "create_many"

\* record(transaction): a request handler appends its spend log payload.
RecordSpendLog ==
    /\ next_id <= MaxEntries
    /\ spend_log_transactions' = Append(spend_log_transactions, Entry(next_id))
    /\ next_id' = next_id + 1
    /\ during' = IF fpc = "idle" THEN during ELSE during + 1
    /\ UNCHANGED <<auxVars, hookVars, endUserVars, use_writer, fpc, logs_to_process, i, j, spendlogs_table,
                   acked, sleeps, flush_result, failure_tasks, db_alerts, alert_tasks,
                   reported, start_buffer, start_next, flushes>>

\* update_spend: `if len(prisma_client.spend_log_transactions) > 0`, then
\* update_spend_logs up to its first await.
UpdateSpendLogsStart ==
    /\ fpc = "idle"
    /\ epc = "idle"
    /\ flushes < MaxFlushes
    /\ Len(spend_log_transactions) > 0
    /\ flushes' = flushes + 1
    /\ logs_to_process' = Snapshot(spend_log_transactions)
    /\ start_buffer' = spend_log_transactions
    /\ start_next' = next_id
    /\ i' = 0
    /\ j' = 0
    /\ acked' = {}
    /\ sleeps' = <<>>
    /\ flush_result' = FlushRunning
    /\ during' = 0
    /\ fpc' = AttemptAwaits(Snapshot(spend_log_transactions))
    /\ attempt_writes' = <<>>
    /\ UNCHANGED <<flushAuxVars, table_count, skipped_rows, hookVars, endUserVars, spend_log_transactions, use_writer, spendlogs_table,
                   failure_tasks, db_alerts, alert_tasks, reported, next_id>>

\* The attempt ended without an exception: break, return.
FlushReturns(buffer, res) ==
    /\ spend_log_transactions' = buffer
    /\ flush_result' = res
    /\ fpc' = "idle"
    /\ UNCHANGED <<i, j, sleeps, failure_tasks>>

\* The outer `except Exception`: the snapshot prefix is removed, then
\* _raise_failed_update_spend_exception creates the failure_handler task
\* and raises.
FlushFails(e) ==
    /\ spend_log_transactions' = RemovePrefix(spend_log_transactions, logs_to_process)
    /\ failure_tasks' = ReportFailure(failure_tasks, e)
    /\ flush_result' = FlushRaised(e)
    /\ fpc' = "idle"
    /\ UNCHANGED <<i, j, sleeps>>

\* `except DB_CONNECTION_ERROR_TYPES`: raise on the last attempt, else sleep.
ConnectionError ==
    IF RetryAgain(i, n_retry_times)
    THEN /\ sleeps' = Append(sleeps, Backoff(i))
         /\ fpc' = "sleep"
         /\ UNCHANGED <<spend_log_transactions, i, j, flush_result, failure_tasks>>
    ELSE FlushFails("connection")

\* create_many for the sub-batch at j returns or raises. A connectivity
\* error may reach the caller after the rows were written.
CreateManyDone ==
    /\ fpc = "create_many"
    /\ LET rows == [k \in 1..Len(Batch(logs_to_process, j)) |->
                        jsonify_object(Batch(logs_to_process, j)[k])]
       IN
       \/ /\ spendlogs_table' = CreateMany(spendlogs_table, rows)
          /\ table_count' = RowsAfterCreateMany(table_count, Ids(Batch(logs_to_process, j)))
          /\ skipped_rows' = skipped_rows \cup Duplicates(table_count, Ids(Batch(logs_to_process, j)))
          /\ acked' = acked \cup Ids(Batch(logs_to_process, j))
          /\ IF NoMoreBatches(logs_to_process, j)
             THEN FlushReturns(RemovePrefix(spend_log_transactions, logs_to_process),
                               FlushReturned)
             ELSE /\ j' = j + BATCH_SIZE
                  /\ UNCHANGED <<spend_log_transactions, fpc, i, sleeps, flush_result,
                                 failure_tasks>>
       \/ /\ \E written \in BOOLEAN :
                /\ spendlogs_table' = IF written THEN CreateMany(spendlogs_table, rows)
                                      ELSE spendlogs_table
                /\ table_count' = IF written
                                  THEN RowsAfterCreateMany(table_count,
                                                           Ids(Batch(logs_to_process, j)))
                                  ELSE table_count
                /\ skipped_rows' = IF written
                                   THEN skipped_rows \cup Duplicates(table_count,
                                                           Ids(Batch(logs_to_process, j)))
                                   ELSE skipped_rows
          /\ ConnectionError
          /\ UNCHANGED acked
       \/ /\ FlushFails("other")
          /\ UNCHANGED <<spendlogs_table, table_count, skipped_rows, acked>>
    /\ attempt_writes' = Append(attempt_writes, Batch(logs_to_process, j))
    /\ UNCHANGED <<flushAuxVars, hookVars, endUserVars, use_writer, logs_to_process, db_alerts, alert_tasks, reported,
                   during, start_buffer, start_next, next_id, flushes>>

\* Statuses other than 200 the writer may answer with.
OtherStatuses == {201, 500}

\* db_writer_client.post(...) returns with status 200, with another status,
\* or raises.
WriterPostDone ==
    /\ fpc = "post"
    /\ \/ /\ spendlogs_table' = CreateMany(spendlogs_table, logs_to_process)
          /\ table_count' = RowsAfterCreateMany(table_count, Ids(logs_to_process))
          /\ skipped_rows' = skipped_rows \cup Duplicates(table_count, Ids(logs_to_process))
          /\ acked' = acked \cup Ids(logs_to_process)
          /\ FlushReturns(AfterPost(spend_log_transactions, logs_to_process, 200),
                          FlushReturned)
       \/ /\ \E status \in OtherStatuses :
                FlushReturns(AfterPost(spend_log_transactions, logs_to_process, status),
                             FlushNotAccepted)
          /\ UNCHANGED <<spendlogs_table, table_count, skipped_rows, acked>>
       \/ /\ \E written \in BOOLEAN :
                /\ spendlogs_table' = IF written
                                      THEN CreateMany(spendlogs_table, logs_to_process)
                                      ELSE spendlogs_table
                /\ table_count' = IF written
                                  THEN RowsAfterCreateMany(table_count, Ids(logs_to_process))
                                  ELSE table_count
                /\ skipped_rows' = IF written
                                   THEN skipped_rows \cup Duplicates(table_count,
                                                                     Ids(logs_to_process))
                                   ELSE skipped_rows
          /\ ConnectionError
          /\ UNCHANGED acked
       \/ /\ FlushFails("other")
          /\ UNCHANGED <<spendlogs_table, table_count, skipped_rows, acked>>
    /\ UNCHANGED <<flushAuxVars, attempt_writes, hookVars, endUserVars, use_writer, logs_to_process, db_alerts, alert_tasks, reported,
                   during, start_buffer, start_next, next_id, flushes>>

\* asyncio.sleep(2**i) is over: the next iteration of the retry loop.
SleepDone ==
    /\ fpc = "sleep"
    /\ i' = i + 1
    /\ j' = 0
    /\ attempt_writes' = <<>>
    /\ fpc' = AttemptAwaits(logs_to_process)
    /\ UNCHANGED <<flushAuxVars, table_count, skipped_rows, hookVars, endUserVars, spend_log_transactions, use_writer, logs_to_process,
                   spendlogs_table, acked, sleeps, flush_result, failure_tasks, db_alerts,
                   alert_tasks, reported, during, start_buffer, start_next, next_id,
                   flushes>>

\* The event loop runs a failure_handler task: nothing when db_exceptions
\* is not among the alert types; else an alerting_handler task is created
\* and the service failure hook gets the call type.
failure_handler ==
    /\ failure_tasks # <<>>
    /\ failure_tasks' = Tail(failure_tasks)
    /\ IF db_alerts
       THEN /\ alert_tasks' = alert_tasks + 1
            /\ reported' = reported \cup {Head(failure_tasks).call_type}
       ELSE UNCHANGED <<alert_tasks, reported>>
    /\ UNCHANGED <<auxVars, hookVars, endUserVars, spend_log_transactions, use_writer, fpc, logs_to_process, i, j,
                   spendlogs_table, acked, sleeps, flush_result, db_alerts, during,
                   start_buffer, start_next, next_id, flushes>>

--------------------------------------------------------------------------
(* ProxyUpdateSpend.update_end_user_spend *)

EndUsers == {"u1", "u2"}
Costs == {1}

\* The dicts of end-user transactions a call can get:
\* end_user_id -> response_cost.
EndUserTransactions ==
    UNION {[S -> Costs] : S \in (SUBSET EndUsers) \ {{}}}

CostOf(t, u) == IF u \in DOMAIN t THEN t[u] ELSE 0

\* A row of litellm_endusertable, and the lack of one.
Row(spend) == [exists |-> TRUE, spend |-> spend, blocked |-> FALSE]
NoRow == [exists |-> FALSE, spend |-> 0, blocked |-> FALSE]

\* The batch of upserts: create the row with spend = response_cost, or
\* increment the spend of the row there is.
Upsert(table, txs) ==
    [u \in EndUsers |->
        IF u \notin DOMAIN txs THEN table[u]
        ELSE IF table[u].exists
             THEN [table[u] EXCEPT !.spend = @ + txs[u]]
             ELSE Row(txs[u])]

\* update_end_user_spend is called with a dict of transactions and opens
\* the database transaction of its first attempt.
EndUserUpdateStart ==
    /\ epc = "idle"
    /\ fpc = "idle"
    /\ updates < MaxUpdates
    /\ \E txs \in EndUserTransactions :
          /\ end_user_list_transactions' = txs
          /\ recorded' = [u \in EndUsers |-> recorded[u] + CostOf(txs, u)]
    /\ updates' = updates + 1
    /\ ei' = 0
    /\ esleeps' = <<>>
    /\ eu_result' = FlushRunning
    /\ epc' = "tx"
    /\ UNCHANGED <<auxVars, hookVars, flushVars, endusertable>>

\* _raise_failed_update_spend_exception ends the call.
EndUserFails(e) ==
    /\ failure_tasks' = ReportFailure(failure_tasks, e)
    /\ eu_result' = FlushRaised(e)
    /\ epc' = "idle"
    /\ UNCHANGED <<ei, esleeps>>

\* The database transaction of the attempt commits, or raises. A
\* connectivity error may reach the caller after the commit.
EndUserTxDone ==
    /\ epc = "tx"
    /\ \/ /\ endusertable' = Upsert(endusertable, end_user_list_transactions)
          /\ eu_result' = FlushReturned
          /\ epc' = "idle"
          /\ UNCHANGED <<ei, esleeps, failure_tasks>>
       \/ /\ \E committed \in BOOLEAN :
                endusertable' = IF committed
                                THEN Upsert(endusertable, end_user_list_transactions)
                                ELSE endusertable
          /\ IF RetryAgain(ei, n_retry_times)
             THEN /\ esleeps' = Append(esleeps, Backoff(ei))
                  /\ epc' = "sleep"
                  /\ UNCHANGED <<ei, eu_result, failure_tasks>>
             ELSE EndUserFails("connection")
       \/ /\ EndUserFails("other")
          /\ UNCHANGED endusertable
    /\ UNCHANGED <<auxVars, hookVars, end_user_list_transactions, recorded, updates,
                   spend_log_transactions, use_writer, fpc, logs_to_process, i, j,
                   spendlogs_table, acked, sleeps, flush_result, db_alerts, alert_tasks,
                   reported, during, start_buffer, start_next, next_id, flushes>>

\* asyncio.sleep(2**i) is over: the next attempt.
EndUserSleepDone ==
    /\ epc = "sleep"
    /\ ei' = ei + 1
    /\ epc' = "tx"
    /\ UNCHANGED <<auxVars, hookVars, flushVars, end_user_list_transactions, endusertable, esleeps,
                   eu_result, recorded, updates>>

--------------------------------------------------------------------------
(* The distributed lock of the spend update job *)

\* The gateway instances (pods) that share the lock name.
Pods == {"pod1", "pod2", "pod3"}

\* The token {lock_name, owner_id, expiry} for the one lock name: none, or
\* the owner with `live` until the lease has run out.
NoLock == [owner |-> "<none>", live |-> FALSE]
Lease(p) == [owner |-> p, live |-> TRUE]

\* A faulty variant: the lock is taken whoever holds it.
AcquireAlways(l, p) == TRUE

\* Acquisition succeeds without waiting when there is no token or its
\* lease has run out.
CanAcquire(l, p) == l = NoLock \/ ~l.live

\* A faulty variant: the lease never runs out.
NeverExpires(l) == FALSE

\* The lease of a token runs out with time, whatever its owner is doing.
CanExpire(l) == l # NoLock /\ l.live

Holds(p) == lock = Lease(p)

Tick(c, outcome) == [parity |-> 1 - c.parity, outcome |-> outcome]

\* update_values(redis_cache=...): the lock manager gets its redis cache.
UpdateValuesRedisCache ==
    /\ ~redis_cache
    /\ redis_cache' = TRUE
    /\ UNCHANGED <<serviceVars, extVars, failureVars, lifecycleVars, hookVars, flushVars, endUserVars, lock, pod, cycle, took_over>>

\* update_spend's periodic tick on instance p: the transaction handler
\* tries the lock once; with it the per-entity aggregate update runs,
\* without it the cycle is skipped.
SpendUpdateTick(p) ==
    /\ redis_cache
    /\ pod[p] = "idle"
    /\ IF CanAcquire(lock, p)
       THEN /\ lock' = Lease(p)
            /\ pod' = [pod EXCEPT ![p] = "updating"]
            /\ cycle' = [cycle EXCEPT ![p] = Tick(@, "ran")]
            /\ took_over' = IF lock # NoLock /\ pod[lock.owner] = "crashed"
                            THEN took_over \cup {p} ELSE took_over
       ELSE /\ cycle' = [cycle EXCEPT ![p] = Tick(@, "skipped")]
            /\ UNCHANGED <<lock, pod, took_over>>
    /\ UNCHANGED <<serviceVars, extVars, failureVars, lifecycleVars, hookVars, flushVars, endUserVars, redis_cache>>

\* The aggregate update of p is over: p releases the token if it is still
\* its own.
SpendUpdateDone(p) ==
    /\ pod[p] = "updating"
    /\ pod' = [pod EXCEPT ![p] = "idle"]
    /\ lock' = IF lock.owner = p THEN NoLock ELSE lock
    /\ UNCHANGED <<serviceVars, extVars, failureVars, lifecycleVars, hookVars, flushVars, endUserVars, redis_cache, cycle, took_over>>

\* The instance dies where it is, releasing nothing.
Crash(p) ==
    /\ pod[p] # "crashed"
    /\ Cardinality({q \in Pods : pod[q] = "crashed"}) < MaxCrashes
    /\ pod' = [pod EXCEPT ![p] = "crashed"]
    /\ UNCHANGED <<serviceVars, extVars, failureVars, lifecycleVars, hookVars, flushVars, endUserVars, redis_cache, lock, cycle, took_over>>

\* The lease of the token runs out.
LeaseExpires ==
    /\ CanExpire(lock)
    /\ lock' = [lock EXCEPT !.live = FALSE]
    /\ UNCHANGED <<serviceVars, extVars, failureVars, lifecycleVars, hookVars, flushVars, endUserVars, redis_cache, pod, cycle, took_over>>

--------------------------------------------------------------------------
(* The hanging-request check *)

\* self.alerting_threshold, in clock ticks.
alerting_threshold == 2

\* The buffer update_request_status adds to the threshold, in clock ticks.
TTL_BUFFER == 1

MaxTime == 5

CallIds == {"id-1", "id-2"}

\* A faulty variant: the entry lives for the threshold alone.
StatusTtlNoBuffer(threshold) == threshold

\* alerting_threshold += 100: the ttl of a request_status entry.
StatusTtl(threshold) == threshold + TTL_BUFFER

\* The entry of the cache under key k that has not expired, if any.
Live(cache, k, t) == {e \in cache : e.key = k /\ t <= e.expires}

\* The check is due once the threshold has passed and runs before the
\* buffer has passed too.
CheckDue(c, t) == t >= c.at + alerting_threshold
CheckLatest(c) == c.at + alerting_threshold + TTL_BUFFER

HangFrame == UNCHANGED <<extVars, hookVars, flushVars, endUserVars, lockVars, lifecycleVars,
                         failureVars, alertVars, startupVars, projectionVars, storeVars,
                         jsonifyVars>>

\* pre_call_hook's first statement, for the request with correlation id id.
_init_response_taking_too_long_task(id) ==
    /\ id \notin hang_started
    /\ now + alerting_threshold + TTL_BUFFER <= MaxTime
    /\ hang_started' = hang_started \cup {id}
    /\ hang_pending' = IF slack_alerting
                       THEN hang_pending \cup {[id |-> id, at |-> now]}
                       ELSE hang_pending
    /\ UNCHANGED <<now, status_cache, terminal, hang_checked>>
    /\ HangFrame

\* update_request_status(litellm_call_id, status), called when the request
\* ended.
update_request_status(id, status) ==
    /\ id \in hang_started
    /\ id \notin terminal
    /\ terminal' = terminal \cup {id}
    /\ status_cache' =
          IF alerting
          THEN {e \in status_cache : e.key # RequestStatusKey(id)} \cup
               {[key |-> RequestStatusKey(id), value |-> status,
                 expires |-> now + StatusTtl(alerting_threshold)]}
          ELSE status_cache
    /\ UNCHANGED <<now, hang_started, hang_pending, hang_checked>>
    /\ HangFrame

\* The delayed check of request id: it asks the cache for the status
\* filed under the correlation id and alerts when there is none.
response_taking_too_long(id) ==
    /\ \E c \in hang_pending :
        /\ c.id = id
        /\ CheckDue(c, now)
        /\ hang_pending' = hang_pending \ {c}
    /\ hang_checked' = hang_checked \cup
          {[id |-> id, terminal |-> id \in terminal,
            alert |-> Live(status_cache, RequestStatusKey(id), now) = {}]}
    /\ UNCHANGED <<now, hang_started, status_cache, terminal>>
    /\ HangFrame

\* Time passes; no pending check is kept waiting beyond the buffer.
ClockTick ==
    /\ now < MaxTime
    /\ \A c \in hang_pending : now < CheckLatest(c)
    /\ now' = now + 1
    /\ UNCHANGED <<hang_started, hang_pending, status_cache, terminal, hang_checked>>
    /\ HangFrame

--------------------------------------------------------------------------
(* startup_event *)

MaxStartups == 4

\* The alert types the two background loops depend on.
LoopAlertTypes == {"daily_reports", "llm_requests_hanging"}

LoopTask(kind, n) == [kind |-> kind, startup |-> n]

\* A faulty variant: the loop is started whenever its alert type is enabled.
StartsLoopUnguarded(enabled, started) == enabled

\* `<type> in self.slack_alerting_instance.alert_types and not self.<flag>`
StartsLoop(enabled, started) == enabled /\ ~started

StartupFrame == UNCHANGED <<extVars, hookVars, flushVars, endUserVars, lockVars, lifecycleVars,
                            failureVars, alertVars, hangVars, projectionVars, storeVars,
                            jsonifyVars>>

\* update_values(alert_types=...) hands the alert types to the slack
\* alerting instance.
UpdateValuesAlertTypes ==
    /\ \E ts \in SUBSET LoopAlertTypes :
        /\ ts # slack_alert_types
        /\ slack_alert_types' = ts
    /\ UNCHANGED <<daily_report_started, hanging_requests_check_started, loop_tasks, startups>>
    /\ StartupFrame

\* startup_event: a synchronous function, so both tests and both
\* assignments happen in one step.
startup_event ==
    /\ startups < MaxStartups
    /\ startups' = startups + 1
    /\ LET daily == StartsLoop("daily_reports" \in slack_alert_types, daily_report_started)
           hanging == StartsLoop("llm_requests_hanging" \in slack_alert_types,
                                 hanging_requests_check_started)
           t1 == IF daily THEN Append(loop_tasks, LoopTask("daily_report", startups + 1))
                 ELSE loop_tasks
       IN /\ daily_report_started' = (daily_report_started \/ daily)
          /\ hanging_requests_check_started' = (hanging_requests_check_started \/ hanging)
          /\ loop_tasks' = IF hanging
                           THEN Append(t1, LoopTask("hanging_request_check", startups + 1))
                           ELSE t1
    /\ UNCHANGED slack_alert_types
    /\ StartupFrame

--------------------------------------------------------------------------
(* Budget projection *)

MaxSpend == 3
MaxLimit == 4

\* Spends and limits are whole units; quotients are exact fractions.
Frac(n, d) == [num |-> n, den |-> d]

\* a / b of two numbers; a zero denominator is Python's ZeroDivisionError.
Div(a, b) == Frac(a, b)

\* Fractions with positive denominators.
FracGT(a, b) == a.num * b.den > b.num * a.den
FracEQ(a, b) == a.num * b.den = b.num * a.den
FracAdd(a, b) == Frac(a.num * b.den + b.num * a.den, a.den * b.den)
FracMul(a, n) == Frac(a.num * n, a.den)
\* n / a
FracInv(n, a) == Frac(n * a.den, a.num)

Limit(v) == [none |-> FALSE, value |-> v]
NoLimit == [none |-> TRUE, value |-> 0]

DaysInMonth(month, leap) ==
    CASE month \in {4, 6, 9, 11} -> 30
      [] month = 2 -> (IF leap THEN 29 ELSE 28)
      [] OTHER -> 31

Dates ==
    {t \in [month : 1..12, day : 1..31, leap : BOOLEAN] : t.day <= DaysInMonth(t.month, t.leap)}

\* date(year, month, 1) - timedelta(days=1), for the year of t or the next:
\* the last day of the month before `month`.
DayBeforeFirstOf(month, t) ==
    IF month = 1 THEN [month |-> 12, day |-> 31, leap |-> t.leap]
    ELSE [month |-> month - 1, day |-> DaysInMonth(month - 1, t.leap), leap |-> t.leap]

\* (end_month - today).days, both in the same month.
DaysBetween(end_month, t) == end_month.day - t.day

NotCalled == [kind |-> "not_called", value |-> FALSE, projected |-> Frac(0, 1),
              approx_days |-> Frac(0, 1), exc |-> ""]
ReturnedBool(b) == [kind |-> "returned", value |-> b, projected |-> Frac(0, 1),
                    approx_days |-> Frac(0, 1), exc |-> ""]
ReturnedNone == [kind |-> "none", value |-> FALSE, projected |-> Frac(0, 1),
                 approx_days |-> Frac(0, 1), exc |-> ""]
ReturnedTuple(p, d) == [kind |-> "tuple", value |-> TRUE, projected |-> p,
                        approx_days |-> d, exc |-> ""]
RaisedError(e) == [kind |-> "raised", value |-> FALSE, projected |-> Frac(0, 1),
                   approx_days |-> Frac(0, 1), exc |-> e]

\* A faulty variant: the spend so far is divided by day - 1 on every day.
DailySpendUnguarded(spend, t) == Div(spend, t.day - 1)

\* if today.day == 1: current_spend else current_spend / (today.day - 1)
daily_spend_estimate(spend, t) ==
    IF t.day = 1 THEN Frac(spend, 1) ELSE Div(spend, t.day - 1)

_is_projected_spend_over_limit(spend, limit, t) ==
    IF limit.none THEN ReturnedBool(FALSE)
    ELSE LET end_month == IF t.month = 12 THEN DayBeforeFirstOf(1, t)
                          ELSE DayBeforeFirstOf(t.month + 1, t)
             remaining_days == DaysBetween(end_month, t)
             estimate == daily_spend_estimate(spend, t)
         IN IF estimate.den = 0 THEN RaisedError("ZeroDivisionError")
            ELSE LET projected_spend == FracAdd(Frac(spend, 1), FracMul(estimate, remaining_days))
                 IN ReturnedBool(FracGT(projected_spend, Frac(limit.value, 1)))

\* datetime.date(today.year, today.month + 1, 1) has no month 13;
\* current_spend / (today.day - 1) divides by zero on the first day.
_get_projected_spend_over_limit(spend, limit, t) ==
    IF limit.none THEN ReturnedNone
    ELSE IF t.month + 1 > 12 THEN RaisedError("ValueError")
    ELSE LET end_month == DayBeforeFirstOf(t.month + 1, t)
             remaining_days == DaysBetween(end_month, t)
             daily_spend == Div(spend, t.day - 1)
         IN IF daily_spend.den = 0 THEN RaisedError("ZeroDivisionError")
            ELSE LET projected_spend == FracMul(daily_spend, remaining_days)
                 IN IF FracGT(projected_spend, Frac(limit.value, 1))
                    THEN IF daily_spend.num = 0 THEN RaisedError("ZeroDivisionError")
                         ELSE ReturnedTuple(projected_spend, FracInv(limit.value, daily_spend))
                    ELSE ReturnedNone

ProjectionFrame == UNCHANGED <<extVars, hookVars, flushVars, endUserVars, lockVars, lifecycleVars,
                               failureVars, alertVars, hangVars, startupVars, storeVars,
                               jsonifyVars, today, current_spend, soft_budget_limit>>

IsProjectedSpendOverLimit ==
    /\ is_over = NotCalled
    /\ is_over' = _is_projected_spend_over_limit(current_spend, soft_budget_limit, today)
    /\ UNCHANGED get_over
    /\ ProjectionFrame

GetProjectedSpendOverLimit ==
    /\ get_over = NotCalled
    /\ get_over' = _get_projected_spend_over_limit(current_spend, soft_budget_limit, today)
    /\ UNCHANGED is_over
    /\ ProjectionFrame

--------------------------------------------------------------------------
(* PrismaClient operations under backoff.on_exception *)

\* The operations decorated with backoff.on_exception.
StoreOps == {"get_generic_data", "get_data", "insert_data", "update_data",
             "delete_data", "connect", "disconnect"}

\* max_tries of the operation's decorator.
max_tries(o) == IF o = "get_generic_data" THEN 1 ELSE 3

\* Durations of an attempt, in seconds, as the report carries them.
Durations == {0, 1}

Report(o, d) == [call_type |-> o, duration |-> d, ran |-> FALSE]

\* A faulty variant: the decorator allows one attempt more.
GivesUpLate(tries, o, timed_out) == tries > max_tries(o) \/ timed_out

\* backoff.on_exception gives up, and re-raises, when max_tries attempts
\* were made or max_time has passed.
GivesUp(tries, o, timed_out) == tries >= max_tries(o) \/ timed_out

StoreFrame == UNCHANGED <<extVars, hookVars, flushVars, endUserVars, lockVars, lifecycleVars,
                          failureVars, alertVars, hangVars, startupVars, projectionVars,
                          jsonifyVars>>

\* The caller awaits an operation: the decorator makes the first attempt.
StoreCall ==
    /\ op_pc = "idle"
    /\ \E o \in StoreOps : op' = o
    /\ op_pc' = "attempt"
    /\ op_tries' = 1
    /\ op_reports' = <<>>
    /\ op_result' = "none"
    /\ StoreFrame

\* The body of the operation returns.
StoreAttemptReturns ==
    /\ op_pc = "attempt"
    /\ op_pc' = "done"
    /\ op_result' = "returned"
    /\ UNCHANGED <<op, op_tries, op_reports>>
    /\ StoreFrame

\* The body raises: the except clause creates the failure_handler task with
\* the duration and the call type, and re-raises into the decorator.
StoreAttemptRaises ==
    /\ op_pc = "attempt"
    /\ \E d \in Durations : op_reports' = Append(op_reports, Report(op, d))
    /\ op_pc' = "failed"
    /\ UNCHANGED <<op, op_tries, op_result>>
    /\ StoreFrame

\* The decorator gives up and the caller gets the exception, or it sleeps
\* and makes the next attempt.
StoreBackoff ==
    /\ op_pc = "failed"
    /\ \E timed_out \in BOOLEAN :
        IF GivesUp(op_tries, op, timed_out)
        THEN /\ op_pc' = "done"
             /\ op_result' = "raised"
             /\ UNCHANGED op_tries
        ELSE /\ op_pc' = "attempt"
             /\ op_tries' = op_tries + 1
             /\ UNCHANGED op_result
    /\ UNCHANGED <<op, op_reports>>
    /\ StoreFrame

\* A failure_handler task runs, whenever the event loop picks it.
StoreFailureHandlerRuns(k) ==
    /\ k \in 1..Len(op_reports)
    /\ ~op_reports[k].ran
    /\ op_reports' = [op_reports EXCEPT ![k].ran = TRUE]
    /\ UNCHANGED <<op, op_pc, op_tries, op_result>>
    /\ StoreFrame

\* The next operation.
StoreDone ==
    /\ op_pc = "done"
    /\ op' = "none"
    /\ op_pc' = "idle"
    /\ op_tries' = 0
    /\ op_reports' = <<>>
    /\ op_result' = "none"
    /\ StoreFrame

--------------------------------------------------------------------------
(* PrismaClient.insert_data *)

MaxInserts == 3

InsertTables == {"user", "key", "config", "spend", "team", "user_notification"}

\* The data handed to insert_data: the field the row is looked up by
\* (token, user_id, team_id, request_id, the param name) and one more field.
InsertData == [id : {Scalar(1), Scalar(2)},
               body : {Scalar(1), Dict(TRUE, 2), DictUncopyable(1)}]

NoInsert == [table |-> "none", data |-> <<>>, outcome |-> "none", before |-> {}]

\* hashlib.sha256(token.encode()).hexdigest()
hash_token(token) == [tag |-> "sha256", ok |-> TRUE, v |-> token.v]

\* json.dumps(v) of the config branch: a str for what it accepts.
ConfigDumps(x) == [tag |-> "json", ok |-> TRUE, v |-> x]

\* The where argument of the upsert.
WhereKey(t, d) == IF t = "key" THEN hash_token(d.id) ELSE d.id

\* The create argument of the upsert; building it can raise.
CreateRaises(t, d) ==
    IF t = "config" THEN ~d.body.ok ELSE DeepcopyRaises(d)

CreateData(t, d) ==
    IF t = "config" THEN [id |-> d.id, body |-> ConfigDumps(d.body)]
    ELSE [jsonify_object(d) EXCEPT !.id = WhereKey(t, d)]

\* The update argument of the upsert: {} keeps the row, the config branch
\* sets param_value.
UpdateAlways(t, row, d) == CreateData(t, d)
UpdateData(t, row, d) ==
    IF t = "config" THEN [row EXCEPT !.body = ConfigDumps(d.body)] ELSE row

\* Prisma's upsert: the row with the where key is updated when there is
\* one, and created otherwise.
Found(rows, key) == {r \in rows : r.id = key}

PrismaUpsert(t, rows, d) ==
    IF Found(rows, WhereKey(t, d)) = {}
    THEN rows \cup {CreateData(t, d)}
    ELSE (rows \ Found(rows, WhereKey(t, d)))
             \cup {UpdateData(t, r, d) : r \in Found(rows, WhereKey(t, d))}

InsertFrame == UNCHANGED <<hookVars, flushVars, endUserVars, lockVars, lifecycleVars,
                           failureVars, serviceVars, keyVars, writeVars, overlapVars, rejsonifyVars>>

\* One call of insert_data, to its return or to the exception it re-raises
\* (building the row raised, or the store did: db_ok is FALSE).
insert_data(t, d, db_ok) ==
    /\ inserts < MaxInserts
    /\ inserts' = inserts + 1
    /\ LET raises == CreateRaises(t, d) \/ ~db_ok
           created == ~raises /\ Found(db_rows[t], WhereKey(t, d)) = {}
       IN /\ db_rows' = IF raises THEN db_rows
                        ELSE [db_rows EXCEPT ![t] = PrismaUpsert(t, @, d)]
          /\ first_insert' = IF created
                             THEN [first_insert EXCEPT ![t] = @ \cup {d}]
                             ELSE first_insert
          /\ insert_last' = [table |-> t, data |-> d,
                             outcome |-> IF raises THEN "raised" ELSE "returned",
                             before |-> db_rows[t]]
    /\ InsertFrame

--------------------------------------------------------------------------
(* is_valid_api_key *)

\* Longest key tried; the limits of the function and of its docstring.
MaxKeyLen == 101
MIN_KEY_LENGTH == 3
MAX_KEY_LENGTH == 100
DOC_MIN_KEY_LENGTH == 20
HASHED_KEY_LENGTH == 64
SK_PREFIX_LENGTH == 3

\* An argument of is_valid_api_key: whether it is a str, whether it starts
\* with "sk-", its length, and what its characters (after the prefix, when
\* it has one) are: "hex" all in [a-fA-F0-9], "word" all in [A-Za-z0-9_-]
\* and not all hexadecimal, "other" some character outside.
ApiKeys == [is_str : BOOLEAN, sk : BOOLEAN, chars : {"hex", "word", "other"},
            len : 0..MaxKeyLen]

\* A str that starts with "sk-" has the three characters of the prefix.
WellFormedKey(k) == k.sk => k.len >= SK_PREFIX_LENGTH

NoKey == [is_str |-> FALSE, sk |-> FALSE, chars |-> "other", len |-> 0]

\* re.match(r"^sk-[A-Za-z0-9_-]+$", key)
MatchesSk(k) == k.sk /\ k.len > SK_PREFIX_LENGTH /\ k.chars \in {"hex", "word"}

\* re.match(r"^[a-fA-F0-9]{64}$", key)
MatchesHashed(k) == ~k.sk /\ k.chars = "hex" /\ k.len = HASHED_KEY_LENGTH

\* The length test of the docstring, and the one of the code.
LengthAsDocumented(k) == DOC_MIN_KEY_LENGTH <= k.len /\ k.len <= MAX_KEY_LENGTH
LengthInRange(k) == MIN_KEY_LENGTH <= k.len /\ k.len <= MAX_KEY_LENGTH

is_valid_api_key(k) ==
    IF ~k.is_str THEN FALSE
    ELSE IF LengthInRange(k)
         THEN (IF MatchesSk(k) THEN TRUE
               ELSE IF MatchesHashed(k) THEN TRUE
               ELSE FALSE)
         ELSE FALSE

KeyFrame == UNCHANGED <<hookVars, flushVars, endUserVars, lockVars, lifecycleVars,
                        failureVars, serviceVars, insertVars, writeVars, overlapVars, rejsonifyVars>>

IsValidApiKey(k) ==
    /\ WellFormedKey(k)
    /\ api_key' = k
    /\ key_valid' = is_valid_api_key(k)
    /\ KeyFrame

--------------------------------------------------------------------------
(* Two invocations of update_spend_logs on one buffer *)

Invocations == {"a", "b"}

Suspended(p) == ov_pc[p] \in {"create_many", "sleep"}

OverlapFrame == UNCHANGED <<hookVars, flushVars, endUserVars, lockVars, lifecycleVars,
                            failureVars, serviceVars, insertVars, keyVars, writeVars, rejsonifyVars>>

\* A request handler appends its spend log payload.
OverlapRecord ==
    /\ ov_next <= MaxEntries
    /\ ov_buffer' = Append(ov_buffer, Entry(ov_next))
    /\ ov_next' = ov_next + 1
    /\ UNCHANGED <<ov_pc, ov_logs, ov_i, ov_j, ov_snapshotted, ov_lost, ov_overlapped>>
    /\ OverlapFrame

\* update_spend finds the buffer not empty and awaits update_spend_logs,
\* which takes its snapshot and runs to the first create_many.
OverlapStart(p) ==
    /\ ov_pc[p] = "idle"
    /\ Len(ov_buffer) > 0
    /\ ov_logs' = [ov_logs EXCEPT ![p] = Snapshot(ov_buffer)]
    /\ ov_i' = [ov_i EXCEPT ![p] = 0]
    /\ ov_j' = [ov_j EXCEPT ![p] = 0]
    /\ ov_pc' = [ov_pc EXCEPT ![p] = "create_many"]
    /\ ov_snapshotted' = ov_snapshotted \cup Ids(Snapshot(ov_buffer))
    /\ ov_overlapped' = (ov_overlapped \/ \E q \in Invocations \ {p} : Suspended(q))
    /\ UNCHANGED <<ov_buffer, ov_next, ov_lost>>
    /\ OverlapFrame

\* The invocation ends, by the assignment after the loop over the
\* sub-batches or by the one of the outer except: the buffer is rebound to
\* spend_log_transactions[len(logs_to_process):].
OverlapEnds(p, how) ==
    /\ ov_buffer' = RemovePrefix(ov_buffer, ov_logs[p])
    /\ ov_lost' = ov_lost \cup ((Ids(ov_buffer) \ Ids(RemovePrefix(ov_buffer, ov_logs[p])))
                                  \ ov_snapshotted)
    /\ ov_pc' = [ov_pc EXCEPT ![p] = how]
    /\ UNCHANGED <<ov_i, ov_j>>

\* create_many for the sub-batch at j returns, raises a connectivity error,
\* or raises another exception.
OverlapCreateManyDone(p) ==
    /\ ov_pc[p] = "create_many"
    /\ \/ IF NoMoreBatches(ov_logs[p], ov_j[p])
          THEN OverlapEnds(p, "returned")
          ELSE /\ ov_j' = [ov_j EXCEPT ![p] = @ + BATCH_SIZE]
               /\ UNCHANGED <<ov_buffer, ov_pc, ov_i, ov_lost>>
       \/ IF RetryAgain(ov_i[p], n_retry_times)
          THEN /\ ov_pc' = [ov_pc EXCEPT ![p] = "sleep"]
               /\ UNCHANGED <<ov_buffer, ov_i, ov_j, ov_lost>>
          ELSE OverlapEnds(p, "raised")
       \/ OverlapEnds(p, "raised")
    /\ UNCHANGED <<ov_logs, ov_next, ov_snapshotted, ov_overlapped>>
    /\ OverlapFrame

\* asyncio.sleep(2**i) is over: the next attempt.
OverlapSleepDone(p) ==
    /\ ov_pc[p] = "sleep"
    /\ ov_i' = [ov_i EXCEPT ![p] = @ + 1]
    /\ ov_j' = [ov_j EXCEPT ![p] = 0]
    /\ ov_pc' = [ov_pc EXCEPT ![p] = "create_many"]
    /\ UNCHANGED <<ov_buffer, ov_logs, ov_next, ov_snapshotted, ov_lost, ov_overlapped>>
    /\ OverlapFrame

--------------------------------------------------------------------------
(* update_values: the alerting settings *)

\* A faulty variant: only the other settings mark the instance for update.
UpdatedByOthersOnly(alerting_given, others_given) == others_given

\* updated_slack_alerting: one of alerting, alerting_threshold, alert_types,
\* alert_to_webhook_url was given.
UpdatedSlackAlerting(alerting_given, others_given) == alerting_given \/ others_given

\* self.alerting after `if alerting is not None: self.alerting = alerting`,
\* as set or unset.
AlertingAfter(set, alerting_given) == set \/ alerting_given

\* SlackAlerting.update_values(alerting=...): the instance takes the
\* setting it is handed when it is not None, and keeps its own otherwise.
SlackAlertingAfter(set, handed) == set \/ handed

\* One call of update_values; alerting_given: the alerting argument is not
\* None, others_given: one of the other alert settings is not None.
update_values(alerting_given, others_given) ==
    /\ alerting' = AlertingAfter(alerting, alerting_given)
    /\ slack_alerting' =
          IF UpdatedSlackAlerting(alerting_given, others_given)
          THEN SlackAlertingAfter(slack_alerting, AlertingAfter(alerting, alerting_given))
          ELSE slack_alerting
    /\ UNCHANGED <<callbacks, phase, idx, data, call_type, request, calls, gated,
                   llm_response, result, hanging_check>>
    /\ UNCHANGED <<llm_alerts, fail_pc, failure, litellm_call_id, request_status, exception_alerts, async_logged, sync_logged, failure_callbacks>>
    /\ UNCHANGED <<flushVars, endUserVars, lockVars, lifecycleVars, serviceVars, extVars>>

--------------------------------------------------------------------------
(* alerting_handler *)

MaxClients == 2

\* The channels alerting_handler knows.
ClientNames == {"slack", "sentry"}

ClientSeqs == UNION {[1..n -> ClientNames] : n \in 0..MaxClients}

Levels == {"Low", "Medium", "High"}

AlertArgs == [level : Levels, alert_type : {"llm_exceptions", "db_exceptions"}]

NoAlert == [level |-> "none", alert_type |-> "none"]

\* What the loop body did for client k: "sent" (send_alert returned, or
\* capture_message was called), "raised" (send_alert raised), "no_client"
\* (sentry without an SDK instance: nothing is contacted).
Send(k, a, o) == [client |-> k, level |-> a.level, alert_type |-> a.alert_type, outcome |-> o]

\* if self.alerting is None: return
EntersLoop(on) == on

\* The outcomes of the loop body for a client.
ClientOutcomes(c, sdk) ==
    IF c = "slack" THEN {"sent", "raised"}
    ELSE IF sdk THEN {"sent"} ELSE {"no_client"}

AlertFrame == UNCHANGED <<extVars, hookVars, flushVars, endUserVars, lockVars, lifecycleVars,
                          failureVars, hangVars, startupVars, projectionVars, storeVars,
                          jsonifyVars, clients, sentry_sdk_instance>>

AlertingHandlerStart ==
    /\ alert_pc = "idle"
    /\ \E a \in AlertArgs : alert_args' = a
    /\ alert_idx' = 1
    /\ alert_sends' = <<>>
    /\ IF EntersLoop(alerting)
       THEN alert_pc' = "loop" /\ alert_result' = "none"
       ELSE alert_pc' = "done" /\ alert_result' = "returned"
    /\ AlertFrame

\* One turn of `for client in self.alerting`. Nothing in the loop catches:
\* an exception of send_alert, or the one raised for sentry without an SDK
\* instance, leaves the handler.
AlertingHandlerStep ==
    /\ alert_pc = "loop"
    /\ alert_idx <= Len(clients)
    /\ \E o \in ClientOutcomes(clients[alert_idx], sentry_sdk_instance) :
        /\ alert_sends' = Append(alert_sends, Send(alert_idx, alert_args, o))
        /\ IF o = "sent"
           THEN /\ alert_idx' = alert_idx + 1
                /\ UNCHANGED <<alert_pc, alert_result>>
           ELSE /\ alert_pc' = "done"
                /\ alert_result' = "raised"
                /\ UNCHANGED alert_idx
    /\ UNCHANGED alert_args
    /\ AlertFrame

AlertingHandlerReturn ==
    /\ alert_pc = "loop"
    /\ alert_idx > Len(clients)
    /\ alert_pc' = "done"
    /\ alert_result' = "returned"
    /\ UNCHANGED <<alert_idx, alert_args, alert_sends>>
    /\ AlertFrame

\* The next alert.
AlertingHandlerDone ==
    /\ alert_pc = "done"
    /\ alert_pc' = "idle"
    /\ alert_idx' = 1
    /\ alert_args' = NoAlert
    /\ alert_sends' = <<>>
    /\ alert_result' = "none"
    /\ AlertFrame

--------------------------------------------------------------------------
(* Initial states *)

HooksIdle ==
    /\ callbacks = <<>>
    /\ phase = "idle"
    /\ idx = 1
    /\ data = NoneData
    /\ call_type = "completion"
    /\ request = NoneData
    /\ calls = <<>>
    /\ gated = {}
    /\ llm_response = NoResponse
    /\ result = NoResult
    /\ slack_alerting = FALSE
    /\ hanging_check = FALSE

FlushIdle ==
    /\ spend_log_transactions = <<>>
    /\ fpc = "idle"
    /\ logs_to_process = <<>>
    /\ i = 0
    /\ j = 0
    /\ spendlogs_table = {}
    /\ acked = {}
    /\ sleeps = <<>>
    /\ flush_result = FlushRunning
    /\ failure_tasks = <<>>
    /\ alert_tasks = 0
    /\ reported = {}
    /\ during = 0
    /\ start_buffer = <<>>
    /\ start_next = 1
    /\ next_id = 1
    /\ flushes = 0

FailureIdle ==
    /\ fail_pc = "idle"
    /\ failure = NoFailure
    /\ litellm_call_id = Absent
    /\ request_status = {}
    /\ exception_alerts = <<>>
    /\ async_logged = 0
    /\ sync_logged = 0
    /\ failure_callbacks = <<>>

AlertIdle ==
    /\ clients = <<>>
    /\ sentry_sdk_instance = FALSE
    /\ alert_pc = "idle"
    /\ alert_idx = 1
    /\ alert_args = NoAlert
    /\ alert_sends = <<>>
    /\ alert_result = "none"

HangIdle ==
    /\ now = 0
    /\ hang_started = {}
    /\ hang_pending = {}
    /\ status_cache = {}
    /\ terminal = {}
    /\ hang_checked = {}

StartupIdle ==
    /\ slack_alert_types = LoopAlertTypes
    /\ daily_report_started = FALSE
    /\ hanging_requests_check_started = FALSE
    /\ loop_tasks = <<>>
    /\ startups = 0

ProjectionIdle ==
    /\ today = [month |-> 1, day |-> 1, leap |-> FALSE]
    /\ current_spend = 0
    /\ soft_budget_limit = NoLimit
    /\ is_over = NotCalled
    /\ get_over = NotCalled

StoreIdle ==
    /\ op = "none"
    /\ op_pc = "idle"
    /\ op_tries = 0
    /\ op_reports = <<>>
    /\ op_result = "none"

JsonifyIdle ==
    /\ json_in = <<>>
    /\ json_out = NotJsonified

InsertIdle ==
    /\ db_rows = [t \in InsertTables |-> {}]
    /\ first_insert = [t \in InsertTables |-> {}]
    /\ insert_last = NoInsert
    /\ inserts = 0

KeyIdle ==
    /\ api_key = NoKey
    /\ key_valid = FALSE

WriteIdle ==
    /\ attempt_writes = <<>>
    /\ table_count = [n \in 1..MaxEntries |-> 0]
    /\ skipped_rows = {}

OverlapIdle ==
    /\ ov_buffer = <<>>
    /\ ov_pc = [p \in Invocations |-> "idle"]
    /\ ov_logs = [p \in Invocations |-> <<>>]
    /\ ov_i = [p \in Invocations |-> 0]
    /\ ov_j = [p \in Invocations |-> 0]
    /\ ov_next = 1
    /\ ov_snapshotted = {}
    /\ ov_lost = {}
    /\ ov_overlapped = FALSE

RejsonifyIdle ==
    /\ json_twice = NotJsonified

ExtIdle ==
    /\ RejsonifyIdle
    /\ OverlapIdle
    /\ WriteIdle
    /\ KeyIdle
    /\ InsertIdle

ServiceIdle ==
    /\ AlertIdle
    /\ HangIdle
    /\ StartupIdle
    /\ ProjectionIdle
    /\ StoreIdle
    /\ JsonifyIdle

LifecycleIdle ==
    /\ lifecycle = "RECEIVED"
    /\ trail = <<"RECEIVED">>
    /\ rejections = {}

LockIdle ==
    /\ redis_cache = FALSE
    /\ lock = NoLock
    /\ pod = [p \in Pods |-> "idle"]
    /\ cycle = [p \in Pods |-> [parity |-> 0, outcome |-> "none"]]
    /\ took_over = {}

EndUserIdle ==
    /\ end_user_list_transactions = <<>>
    /\ endusertable = [u \in EndUsers |-> NoRow]
    /\ epc = "idle"
    /\ ei = 0
    /\ esleeps = <<>>
    /\ eu_result = FlushRunning
    /\ recorded = [u \in EndUsers |-> 0]
    /\ updates = 0

\* The pipeline, the spend writers, the lock and the failure hook at rest,
\* with the configuration the constructor leaves.
CoreIdle ==
    /\ HooksIdle
    /\ FlushIdle
    /\ EndUserIdle
    /\ LockIdle
    /\ LifecycleIdle
    /\ FailureIdle
    /\ ExtIdle
    /\ llm_alerts = TRUE
    /\ use_writer = FALSE
    /\ db_alerts = TRUE

--------------------------------------------------------------------------
(* Specification of the hook pipeline *)

HookInit ==
    /\ callbacks \in HookSeqs
    /\ phase = "idle"
    /\ idx = 1
    /\ data = NoneData
    /\ call_type = "completion"
    /\ request = NoneData
    /\ calls = <<>>
    /\ gated = {}
    /\ llm_response = NoResponse
    /\ result = NoResult
    /\ slack_alerting = FALSE
    /\ hanging_check = FALSE

Init ==
    /\ HookInit
    /\ FlushIdle
    /\ EndUserIdle
    /\ LockIdle
    /\ LifecycleIdle
    /\ FailureIdle
    /\ ExtIdle
    /\ ServiceIdle
    /\ alerting = FALSE
    /\ llm_alerts = TRUE
    /\ use_writer = FALSE
    /\ db_alerts = TRUE

Next ==
    \/ PreCallStart
    \/ PreCallStep
    \/ PreCallReturn
    \/ DuringCallStart
    \/ DuringCallStep
    \/ DuringCallReturn
    \/ PostCallSuccessStart
    \/ PostCallSuccessStep
    \/ PostCallSuccessReturn
    \/ StreamingHookStart
    \/ StreamingHookStep
    \/ StreamingHookReturn
    \/ StreamingStrStart
    \/ StreamingStrStep
    \/ StreamingStrReturn
    \/ StreamingIteratorStart
    \/ StreamingIteratorStep
    \/ StreamingIteratorReturn
    \/ HookDone

Spec == Init /\ [][Next]_vars

--------------------------------------------------------------------------
(* Specification of the spend write buffer *)

FlushInit ==
    /\ HooksIdle
    /\ FlushIdle
    /\ EndUserIdle
    /\ LockIdle
    /\ LifecycleIdle
    /\ FailureIdle
    /\ ExtIdle
    /\ ServiceIdle
    /\ alerting = FALSE
    /\ llm_alerts = TRUE
    /\ use_writer \in BOOLEAN
    /\ db_alerts \in BOOLEAN

FlushNext ==
    \/ RecordSpendLog
    \/ UpdateSpendLogsStart
    \/ CreateManyDone
    \/ WriterPostDone
    \/ SleepDone
    \/ failure_handler

SpecFlush == FlushInit /\ [][FlushNext]_vars

--------------------------------------------------------------------------
(* Specification of the end-user spend update *)

EndUserInit ==
    /\ HooksIdle
    /\ FlushIdle
    /\ EndUserIdle
    /\ LockIdle
    /\ LifecycleIdle
    /\ FailureIdle
    /\ ExtIdle
    /\ ServiceIdle
    /\ alerting = FALSE
    /\ llm_alerts = TRUE
    /\ use_writer = FALSE
    /\ db_alerts \in BOOLEAN

EndUserNext ==
    \/ EndUserUpdateStart
    \/ EndUserTxDone
    \/ EndUserSleepDone
    \/ failure_handler

SpecEndUser == EndUserInit /\ [][EndUserNext]_vars

--------------------------------------------------------------------------
(* Specification of the request lifecycle *)

LifecycleNext ==
    \/ EnterPreCall
    \/ LifecyclePreCallStart
    \/ PreCallStep
    \/ PreCallReturn
    \/ AfterPreCall
    \/ LifecycleDuringCallStart
    \/ DuringCallStep
    \/ DuringCallReturn
    \/ AfterDuringCall
    \/ DispatchEnds
    \/ Account
    \/ NextRequest

SpecLifecycle == Init /\ [][LifecycleNext]_vars

--------------------------------------------------------------------------
(* Specification of post_call_failure_hook *)

FailureInit ==
    /\ callbacks \in FailureHookSeqs
    /\ phase = "idle"
    /\ idx = 1
    /\ data = NoneData
    /\ call_type = "completion"
    /\ request = NoneData
    /\ calls = <<>>
    /\ gated = {}
    /\ llm_response = NoResponse
    /\ result = NoResult
    /\ slack_alerting = FALSE
    /\ hanging_check = FALSE
    /\ FlushIdle
    /\ EndUserIdle
    /\ LockIdle
    /\ LifecycleIdle
    /\ FailureIdle
    /\ ExtIdle
    /\ ServiceIdle
    /\ alerting \in BOOLEAN
    /\ llm_alerts \in BOOLEAN
    /\ use_writer = FALSE
    /\ db_alerts = TRUE

FailureNext ==
    \/ PostCallFailureStart
    \/ UpdateRequestStatus
    \/ ExceptionAlert
    \/ ProxyOnlyErrorLogging
    \/ AsyncFailureHandlerDone
    \/ ScheduleFailureCallbacks
    \/ \E k \in 1..MaxHooks : FailureCallbackStarts(k)
    \/ \E k \in 1..MaxHooks : FailureCallbackEnds(k)

SpecFailure == FailureInit /\ [][FailureNext]_vars

--------------------------------------------------------------------------
(* Specification of the distributed lock *)

LockInit ==
    /\ HooksIdle
    /\ FlushIdle
    /\ EndUserIdle
    /\ LockIdle
    /\ LifecycleIdle
    /\ FailureIdle
    /\ ExtIdle
    /\ ServiceIdle
    /\ alerting = FALSE
    /\ llm_alerts = TRUE
    /\ use_writer = FALSE
    /\ db_alerts = TRUE

LockNext ==
    \/ UpdateValuesRedisCache
    \/ \E p \in Pods : SpendUpdateTick(p)
    \/ \E p \in Pods : SpendUpdateDone(p)
    \/ \E p \in Pods : Crash(p)
    \/ LeaseExpires

\* The scheduler keeps ticking on every live instance, an update ends, and
\* time passes.
LockFairness ==
    /\ WF_vars(UpdateValuesRedisCache)
    /\ WF_vars(LeaseExpires)
    /\ \A p \in Pods : WF_vars(SpendUpdateTick(p)) /\ WF_vars(SpendUpdateDone(p))

SpecLock == LockInit /\ [][LockNext]_vars /\ LockFairness

--------------------------------------------------------------------------
(* Specification of alerting_handler *)

AlertInit ==
    /\ CoreIdle
    /\ alerting \in BOOLEAN
    /\ clients \in (IF alerting THEN ClientSeqs ELSE {<<>>})
    /\ sentry_sdk_instance \in BOOLEAN
    /\ alert_pc = "idle"
    /\ alert_idx = 1
    /\ alert_args = NoAlert
    /\ alert_sends = <<>>
    /\ alert_result = "none"
    /\ HangIdle
    /\ StartupIdle
    /\ ProjectionIdle
    /\ StoreIdle
    /\ JsonifyIdle

AlertNext ==
    \/ AlertingHandlerStart
    \/ AlertingHandlerStep
    \/ AlertingHandlerReturn
    \/ AlertingHandlerDone

SpecAlert == AlertInit /\ [][AlertNext]_vars

--------------------------------------------------------------------------
(* Specification of the hanging-request check *)

\* update_values hands self.alerting to the slack alerting instance.
HangInit ==
    /\ callbacks = <<>>
    /\ phase = "idle"
    /\ idx = 1
    /\ data = NoneData
    /\ call_type = "completion"
    /\ request = NoneData
    /\ calls = <<>>
    /\ gated = {}
    /\ llm_response = NoResponse
    /\ result = NoResult
    /\ hanging_check = FALSE
    /\ FlushIdle
    /\ EndUserIdle
    /\ LockIdle
    /\ LifecycleIdle
    /\ FailureIdle
    /\ ExtIdle
    /\ llm_alerts = TRUE
    /\ use_writer = FALSE
    /\ db_alerts = TRUE
    /\ AlertIdle
    /\ HangIdle
    /\ alerting \in BOOLEAN
    /\ slack_alerting = alerting
    /\ StartupIdle
    /\ ProjectionIdle
    /\ StoreIdle
    /\ JsonifyIdle

HangNext ==
    \/ \E id \in CallIds : _init_response_taking_too_long_task(id)
    \/ \E id \in CallIds, st \in {"success", "fail"} : update_request_status(id, st)
    \/ \E id \in CallIds : response_taking_too_long(id)
    \/ ClockTick

SpecHang == HangInit /\ [][HangNext]_vars

--------------------------------------------------------------------------
(* Specification of startup_event *)

StartupInit ==
    /\ CoreIdle
    /\ alerting = FALSE
    /\ AlertIdle
    /\ HangIdle
    /\ slack_alert_types \in SUBSET LoopAlertTypes
    /\ daily_report_started = FALSE
    /\ hanging_requests_check_started = FALSE
    /\ loop_tasks = <<>>
    /\ startups = 0
    /\ ProjectionIdle
    /\ StoreIdle
    /\ JsonifyIdle

StartupNext ==
    \/ UpdateValuesAlertTypes
    \/ startup_event

SpecStartup == StartupInit /\ [][StartupNext]_vars

--------------------------------------------------------------------------
(* Specification of the budget projection *)

ProjectionInit ==
    /\ CoreIdle
    /\ alerting = FALSE
    /\ AlertIdle
    /\ HangIdle
    /\ StartupIdle
    /\ today \in Dates
    /\ current_spend \in 0..MaxSpend
    /\ soft_budget_limit \in {NoLimit} \cup {Limit(v) : v \in 0..MaxLimit}
    /\ is_over = NotCalled
    /\ get_over = NotCalled
    /\ StoreIdle
    /\ JsonifyIdle

ProjectionNext ==
    \/ IsProjectedSpendOverLimit
    \/ GetProjectedSpendOverLimit

SpecProjection == ProjectionInit /\ [][ProjectionNext]_vars

--------------------------------------------------------------------------
(* Specification of the PrismaClient operations *)

StoreInit ==
    /\ CoreIdle
    /\ alerting = FALSE
    /\ ServiceIdle

StoreNext ==
    \/ StoreCall
    \/ StoreAttemptReturns
    \/ StoreAttemptRaises
    \/ StoreBackoff
    \/ \E k \in 1..max_tries("get_data") : StoreFailureHandlerRuns(k)
    \/ StoreDone

SpecStore == StoreInit /\ [][StoreNext]_vars

--------------------------------------------------------------------------
(* Specification of jsonify_object *)

JsonifyInit ==
    /\ CoreIdle
    /\ alerting = FALSE
    /\ AlertIdle
    /\ HangIdle
    /\ StartupIdle
    /\ ProjectionIdle
    /\ StoreIdle
    /\ json_in \in Records
    /\ json_out = NotJsonified

JsonifyNext == JsonifyObject \/ JsonifyAgain

SpecJsonify == JsonifyInit /\ [][JsonifyNext]_vars

--------------------------------------------------------------------------
(* Specification of insert_data *)

InsertInit ==
    /\ CoreIdle
    /\ alerting = FALSE
    /\ ServiceIdle

InsertNext ==
    \E t \in InsertTables, d \in InsertData, db_ok \in BOOLEAN : insert_data(t, d, db_ok)

SpecInsert == InsertInit /\ [][InsertNext]_vars

--------------------------------------------------------------------------
(* Specification of is_valid_api_key *)

KeyInit ==
    /\ CoreIdle
    /\ alerting = FALSE
    /\ ServiceIdle

KeyNext == \E k \in ApiKeys : IsValidApiKey(k)

SpecKey == KeyInit /\ [][KeyNext]_vars

--------------------------------------------------------------------------
(* Specification of two invocations of update_spend_logs *)

OverlapInit ==
    /\ CoreIdle
    /\ alerting = FALSE
    /\ ServiceIdle

OverlapNext ==
    \/ OverlapRecord
    \/ \E p \in Invocations : OverlapStart(p)
    \/ \E p \in Invocations : OverlapCreateManyDone(p)
    \/ \E p \in Invocations : OverlapSleepDone(p)

SpecOverlap == OverlapInit /\ [][OverlapNext]_vars

--------------------------------------------------------------------------
(* Specification of the alerting settings and the hanging-request check *)

SettingsInit ==
    /\ CoreIdle
    /\ alerting = FALSE
    /\ ServiceIdle

SettingsNext ==
    \/ \E a, o \in BOOLEAN : update_values(a, o)
    \/ \E id \in CallIds : _init_response_taking_too_long_task(id)
    \/ \E id \in CallIds, st \in {"success", "fail"} : update_request_status(id, st)
    \/ \E id \in CallIds : response_taking_too_long(id)
    \/ ClockTick

SpecSettings == SettingsInit /\ [][SettingsNext]_vars

--------------------------------------------------------------------------
(* Properties of pre_call_hook *)

Rejects(r) == r.kind \in {"str", "exc", "raise"}

InPreCall == phase = "pre_call" \/ (phase = "done" /\ result.of = "pre_call_hook")

CalledHooks == {calls[k].hook : k \in 1..Len(calls)}

\* Hooks the loop has gone past: all of them once the function returned,
\* none when it returned None for a None context before the loop.
PassedHooks ==
    IF request = NoneData THEN {}
    ELSE IF result.kind = "returned" THEN 1..Len(callbacks) ELSE 1..(idx - 1)

\* What the loop holds after the handler invocation c.
ContextAfter(c) == IF c.resp.kind = "dict" THEN c.resp.value ELSE c.data

\* C1: pre_call_hook invokes the eligible hooks in registration order and
\* stops at the first one that rejects (returns a string, returns an
\* exception, or raises): the rejecting invocation is the last one, no hook
\* registered after it is invoked, and the call ends raising with that
\* hook's message. Every hook the loop went past was invoked unless it is
\* not eligible (no pre-call handler, or gated out by should_run_guardrail).
C1_PreCallShortCircuit ==
    InPreCall =>
        /\ \A k \in 1..Len(calls) :
              /\ k < Len(calls) => calls[k].hook < calls[k + 1].hook
              /\ Rejects(calls[k].resp) =>
                    /\ k = Len(calls)
                    /\ phase = "done"
                    /\ result.kind = "raised"
                    /\ result.exc.message = calls[k].resp.msg
                    /\ \A hk \in 1..Len(callbacks) :
                          hk > calls[k].hook => hk \notin CalledHooks
        /\ result.kind = "raised" => (calls # <<>> /\ Rejects(calls[Len(calls)].resp))
        /\ \A hk \in PassedHooks :
              \/ hk \in CalledHooks
              \/ hk \in gated
              \/ callbacks[hk].cls = "None"
              \/ (callbacks[hk].cls = "Logger" /\ ~callbacks[hk].overrides)

\* Hooks [B: rejects "blocked", C: eligible]: the call ended in the
\* rejection "blocked" and C was not invoked.
C1_Witness ==
    /\ phase = "done" /\ result.of = "pre_call_hook"
    /\ Len(callbacks) = 2
    /\ callbacks[2].cls = "Logger" /\ callbacks[2].overrides
    /\ Len(calls) = 1
    /\ calls[1].hook = 1
    /\ calls[1].resp.kind = "str" /\ calls[1].resp.msg = "blocked"
    /\ result.kind = "raised" /\ result.exc.message = "blocked"

\* C3: pre_call_hook is a sequential fold: the first hook invoked receives
\* the context the function was called with, each later one receives the
\* dict the previous one returned, or the previous context when that one
\* returned None, and the function returns the context the last hook left.
C3_PreCallFold ==
    InPreCall =>
        /\ calls # <<>> => calls[1].data = request
        /\ \A k \in 1..(Len(calls) - 1) : calls[k + 1].data = ContextAfter(calls[k])
        /\ ~Rejects(IF calls = <<>> THEN RespNone ELSE calls[Len(calls)].resp) =>
              data = (IF calls = <<>> THEN request ELSE ContextAfter(calls[Len(calls)]))
        /\ result.kind = "returned" => result.value = data

\* Two hooks ran, the first replaced the context and the second received
\* the replacement and returned None; the replacement is what was returned.
C3_Witness ==
    /\ phase = "done" /\ result.of = "pre_call_hook" /\ result.kind = "returned"
    /\ Len(calls) = 2
    /\ calls[1].resp.kind = "dict" /\ calls[1].resp.value # calls[1].data
    /\ calls[2].data = calls[1].resp.value
    /\ calls[2].resp.kind = "none"
    /\ result.value = calls[1].resp.value
    /\ result.value # request

GenerationCallTypes == {"completion", "text_completion"}

\* C4: a string returned by a pre-call handler always ends the request:
\* for completion and text_completion with a RejectedRequestError carrying
\* the string and the model of the context the handler was given, for every
\* other call type with an HTTP 400 error carrying the string.
C4_StringRejects ==
    InPreCall =>
        \A k \in 1..Len(calls) :
            calls[k].resp.kind = "str" =>
                /\ k = Len(calls)
                /\ phase = "done"
                /\ result.kind = "raised"
                /\ result.exc.message = calls[k].resp.msg
                /\ IF call_type \in GenerationCallTypes
                   THEN /\ result.exc.type = "RejectedRequestError"
                        /\ result.exc.model = DataGetModel(calls[k].data)
                   ELSE /\ result.exc.type = "HTTPException"
                        /\ result.exc.status_code = 400

\* An embeddings request was rejected by a string with an HTTP 400 after an
\* earlier hook had let it through.
C4_Witness ==
    /\ phase = "done" /\ result.of = "pre_call_hook"
    /\ call_type = "embeddings"
    /\ Len(calls) = 2
    /\ calls[2].resp.kind = "str"
    /\ result.exc.type = "HTTPException" /\ result.exc.status_code = 400
    /\ result.exc.message = calls[2].resp.msg

--------------------------------------------------------------------------
(* The should_run_guardrail gate, over all hook functions *)

IsGuardrail(hk) == callbacks[hk].cls = "Guardrail"

\* The hook function the request is in, or was in last.
CurrentFunction ==
    CASE phase = "pre_call" -> "pre_call_hook"
      [] phase = "during_call" -> "during_call_hook"
      [] phase = "post_call_success" -> "post_call_success_hook"
      [] phase = "streaming_hook" -> "async_post_call_streaming_hook"
      [] phase = "streaming_str" -> "post_call_streaming_hook"
      [] phase = "streaming_iterator" -> "async_post_call_streaming_iterator_hook"
      [] OTHER -> result.of

\* The hook functions that stand for an event type: pre_call, during_call,
\* post_call (success, the two per-chunk streaming functions, the stream
\* iterator).
EventFunctions ==
    {"pre_call_hook", "during_call_hook", "post_call_success_hook",
     "async_post_call_streaming_hook", "post_call_streaming_hook",
     "async_post_call_streaming_iterator_hook"}

\* Every handler invocation the function made on a guardrail was made with
\* should_run_guardrail(data, event) True.
GuardrailsGatedIn(f) ==
    CurrentFunction = f =>
        \A k \in 1..Len(calls) : IsGuardrail(calls[k].hook) => calls[k].run

\* C2: in every hook function that has an event type, a guardrail whose
\* should_run_guardrail(data, event) is not True for that event is not
\* invoked for it.
C2_GuardrailGate == \A f \in EventFunctions : GuardrailsGatedIn(f)

\* The gate, function by function.
GatePreCall == GuardrailsGatedIn("pre_call_hook")
GateDuringCall == GuardrailsGatedIn("during_call_hook")
GatePostCallSuccess == GuardrailsGatedIn("post_call_success_hook")
GateStreamingHook == GuardrailsGatedIn("async_post_call_streaming_hook")
GateStreamingIterator == GuardrailsGatedIn("async_post_call_streaming_iterator_hook")
GateStreamingStr == GuardrailsGatedIn("post_call_streaming_hook")

\* during_call_hook with the legacy callbacks left out of the claim.
GateDuringCallNonLegacy ==
    CurrentFunction = "during_call_hook" =>
        \A k \in 1..Len(calls) :
            (IsGuardrail(calls[k].hook) /\ callbacks[calls[k].hook].legacy = "none")
                => calls[k].run

--------------------------------------------------------------------------
(* Properties of post_call_success_hook and during_call_hook *)

InPostCallSuccess ==
    phase = "post_call_success" \/ (phase = "done" /\ result.of = "post_call_success_hook")

\* C19: in post_call_success_hook an exception raised by a hook's success
\* handler propagates to the caller and aborts the chain: the raising
\* invocation is the last one, no hook registered after it is invoked, the
\* function ends raising that exception and returns no response; and the
\* function raises only what a handler raised.
C19_SuccessHandlerExceptionAborts ==
    InPostCallSuccess =>
        /\ \A k \in 1..Len(calls) :
              calls[k].resp.kind = "raise" =>
                  /\ k = Len(calls)
                  /\ phase = "done"
                  /\ result.kind = "raised"
                  /\ result.exc.message = calls[k].resp.msg
                  /\ result.response = NoResponse
                  /\ \A hk \in 1..Len(callbacks) :
                        hk > calls[k].hook => hk \notin CalledHooks
        /\ result.kind = "raised" =>
              (calls # <<>> /\ calls[Len(calls)].resp.kind = "raise")

\* Two hooks with a success handler: the first raised "blocked", the
\* second was not invoked and the function raised "blocked".
C19_Witness ==
    /\ phase = "done" /\ result.of = "post_call_success_hook"
    /\ Len(callbacks) = 2
    /\ callbacks[2].cls = "Logger"
    /\ Len(calls) = 1
    /\ calls[1].hook = 1
    /\ calls[1].resp.kind = "raise" /\ calls[1].resp.msg = "blocked"
    /\ result.kind = "raised" /\ result.exc.message = "blocked"
    /\ result.response = NoResponse

InDuringCall ==
    phase = "during_call" \/ (phase = "done" /\ result.of = "during_call_hook")

\* A guardrail carrying the legacy marker.
LegacyPreCall(hk) ==
    /\ ~callbacks[hk].isStr
    /\ callbacks[hk].cls = "Guardrail"
    /\ callbacks[hk].legacy = "pre_call"

\* The moderation handler of a guardrail carrying the legacy marker is
\* never invoked.
LegacyPreCallNotInvoked ==
    InDuringCall => \A k \in 1..Len(calls) : ~LegacyPreCall(calls[k].hook)

\* C20: in during_call_hook a guardrail carrying the legacy marker is not
\* invoked, and skipping it affects only that hook: when the function
\* returns, every guardrail instance registered before or after it was
\* invoked, in registration order, unless should_run_guardrail gated it
\* out.
C20_LegacySkipsOnlyItself ==
    InDuringCall =>
        /\ \A k \in 1..Len(calls) :
              /\ ~LegacyPreCall(calls[k].hook)
              /\ k < Len(calls) => calls[k].hook < calls[k + 1].hook
        /\ (phase = "done" /\ result.kind = "returned") =>
              \A hk \in 1..Len(callbacks) :
                  \/ hk \in CalledHooks
                  \/ hk \in gated
                  \/ LegacyPreCall(hk)
                  \/ callbacks[hk].isStr
                  \/ callbacks[hk].cls # "Guardrail"

\* during_call_hook returned at a guardrail carrying the legacy marker with
\* a guardrail registered after it that was never reached.
LegacyReturnCutsChain ==
    /\ phase = "done" /\ result.of = "during_call_hook" /\ result.kind = "returned"
    /\ Len(callbacks) = 2
    /\ LegacyPreCall(1)
    /\ ~callbacks[2].isStr /\ callbacks[2].cls = "Guardrail" /\ callbacks[2].legacy = "none"
    /\ calls = <<>> /\ gated = {}
    /\ result.value = NoneData

--------------------------------------------------------------------------
(* Properties of alerting_handler *)

AlertDone == alert_pc = "done"

\* The loop reached client k.
Attempted(k) == \E n \in 1..Len(alert_sends) : alert_sends[n].client = k

\* The loop body failed at client k.
ChannelFailed(k) ==
    \E n \in 1..Len(alert_sends) :
        alert_sends[n].client = k /\ alert_sends[n].outcome # "sent"

\* With alerting off alerting_handler contacts no channel and returns.
AlertingOffIsNoOp ==
    (AlertDone /\ ~alerting) => (alert_sends = <<>> /\ alert_result = "returned")

\* C21: alerting_handler is a no-op when alerting is disabled (no channel
\* is contacted, nothing is raised); when alerting is enabled the handler
\* gets to every configured channel with the alert it was given.
C21_AlertingHandlerFanOut ==
    /\ AlertingOffIsNoOp
    /\ (AlertDone /\ alerting) =>
          \A k \in 1..Len(clients) :
              \E n \in 1..Len(alert_sends) :
                  /\ alert_sends[n].client = k
                  /\ alert_sends[n].level = alert_args.level
                  /\ alert_sends[n].alert_type = alert_args.alert_type

\* Alerting is off and the handler returned without contacting anything.
AlertingOffReturned ==
    /\ AlertDone /\ ~alerting
    /\ alert_args.level = "High"
    /\ alert_result = "returned"

\* C22: alert channels are independent: when the send to one configured
\* channel fails, the alert is still sent to every other configured
\* channel, whatever their order, and the handler does not raise.
C22_ChannelsIndependent ==
    AlertDone =>
        \A k \in 1..Len(clients) :
            ChannelFailed(k) =>
                /\ alert_result = "returned"
                /\ \A m \in 1..Len(clients) : m # k => Attempted(m)

\* sentry is configured before slack and has no SDK instance: the handler
\* raised and slack was never reached.
SentryFailureCutsSlack ==
    /\ AlertDone /\ alerting
    /\ clients = <<"sentry", "slack">>
    /\ ~sentry_sdk_instance
    /\ alert_result = "raised"
    /\ ~Attempted(2)

\* Up to the first channel that fails the channels are served in order.
AlertsSentInOrder ==
    /\ \A n \in 1..Len(alert_sends) : alert_sends[n].client = n
    /\ \A n \in 1..(Len(alert_sends) - 1) : alert_sends[n].outcome = "sent"
    /\ (AlertDone /\ alert_result = "returned" /\ alerting) => Len(alert_sends) = Len(clients)

--------------------------------------------------------------------------
(* Properties of the hanging-request check *)

\* C23: with alerting on, every pre_call_hook invocation schedules a
\* delayed check for the request's correlation id, and a check that runs
\* after update_request_status filed the request's terminal status finds
\* the entry still in the cache and raises no alert.
C23_TerminalStatusOutlivesCheck ==
    /\ alerting =>
          \A id \in hang_started :
              \/ \E c \in hang_pending : c.id = id
              \/ \E c \in hang_checked : c.id = id
    /\ \A c \in hang_checked : (alerting /\ c.terminal) => ~c.alert

\* The status was filed at the moment the check was scheduled and the
\* check ran as late as it can, when the entry is about to expire; it
\* found the entry and did not alert.
C23_Witness ==
    /\ alerting
    /\ \E c \in hang_checked, e \in status_cache :
        /\ c.terminal /\ ~c.alert
        /\ e.key = RequestStatusKey(c.id)
        /\ e.expires = now

\* A check that ran before any status was filed alerted.
HangingRequestAlerted ==
    \E c \in hang_checked : ~c.terminal /\ c.alert

--------------------------------------------------------------------------
(* Properties of startup_event *)

TasksOf(kind, tasks) == {n \in 1..Len(tasks) : tasks[n].kind = kind}

\* A step creates a task of the kind only with its alert type enabled.
StartedOnlyEnabled(kind, type) ==
    TasksOf(kind, loop_tasks') # TasksOf(kind, loop_tasks) => type \in slack_alert_types

\* C24: after any number of startup_event calls at most one daily-report
\* task and at most one hanging-request-check task have been created, and
\* a task is created only by a call that finds the loop's alert type
\* enabled.
C24_LoopsStartedAtMostOnce ==
    [][/\ Cardinality(TasksOf("daily_report", loop_tasks')) <= 1
       /\ Cardinality(TasksOf("hanging_request_check", loop_tasks')) <= 1
       /\ StartedOnlyEnabled("daily_report", "daily_reports")
       /\ StartedOnlyEnabled("hanging_request_check", "llm_requests_hanging")]_vars

\* Three startup_event calls with both alert types enabled: one task of
\* each kind, both created by the first call.
C24_Witness ==
    /\ startups = 3
    /\ slack_alert_types = LoopAlertTypes
    /\ loop_tasks = <<LoopTask("daily_report", 1), LoopTask("hanging_request_check", 1)>>

\* None of three calls found the hanging-request type enabled and the
\* check was not started; the daily report was started by the second call.
C24_WitnessDisabled ==
    /\ startups = 3
    /\ loop_tasks = <<LoopTask("daily_report", 2)>>
    /\ ~hanging_requests_check_started

--------------------------------------------------------------------------
(* Properties of the budget projection *)

\* daily_rate = current_spend / max(day_of_month - 1, 1)
DailyRate == Frac(current_spend, IF today.day - 1 > 1 THEN today.day - 1 ELSE 1)

\* The days left in the current month.
RemainingDays == DaysInMonth(today.month, today.leap) - today.day

\* projected = current_spend + daily_rate * remaining_days
Projected == FracAdd(Frac(current_spend, 1), FracMul(DailyRate, RemainingDays))

ProjectedOverLimit ==
    ~soft_budget_limit.none /\ FracGT(Projected, Frac(soft_budget_limit.value, 1))

\* C25: _is_projected_spend_over_limit never raises and returns true
\* exactly when there is a soft limit and current_spend + daily_rate *
\* remaining_days exceeds it, daily_rate being current_spend /
\* max(day_of_month - 1, 1) and remaining_days the days left in the month,
\* December and the first day of a month included.
C25_ProjectedSpendOverLimit ==
    is_over # NotCalled =>
        /\ is_over.kind = "returned"
        /\ is_over.value = ProjectedOverLimit

\* On December 1 a spend of 1 projects to 1 + 1 * 30 and is over a limit
\* of 4.
C25_Witness ==
    /\ today.month = 12 /\ today.day = 1
    /\ current_spend = 1
    /\ soft_budget_limit = Limit(4)
    /\ is_over = ReturnedBool(TRUE)

\* Mid-month, a projection that stays under the limit.
C25_WitnessUnder ==
    /\ today.month = 6 /\ today.day = 29
    /\ current_spend = 3
    /\ soft_budget_limit = Limit(4)
    /\ is_over = ReturnedBool(FALSE)

\* C26: when the projected spend exceeds the soft limit and daily_rate > 0,
\* _get_projected_spend_over_limit returns the projected spend and the
\* date today + soft_limit / daily_rate days; when there is no soft limit
\* or the projection does not exceed it, it returns nothing.
C26_ProjectedSpendAndDate ==
    get_over # NotCalled =>
        IF ProjectedOverLimit /\ DailyRate.num > 0
        THEN /\ get_over.kind = "tuple"
             /\ FracEQ(get_over.projected, Projected)
             /\ FracEQ(get_over.approx_days, FracInv(soft_budget_limit.value, DailyRate))
        ELSE (soft_budget_limit.none \/ ~ProjectedOverLimit) => get_over.kind = "none"

\* The companion raises in December and on the first day of a month.
GetProjectedRaises ==
    (get_over # NotCalled /\ ~soft_budget_limit.none) =>
        /\ today.month = 12 => get_over = RaisedError("ValueError")
        /\ (today.month # 12 /\ today.day = 1) => get_over = RaisedError("ZeroDivisionError")

\* Outside December and the first day, what the companion returns: the
\* date is today + soft_limit / daily_rate, the amount is daily_rate *
\* remaining_days, without the spend so far, and it is returned when that
\* amount exceeds the limit.
GetProjectedElsewhere ==
    (get_over # NotCalled /\ ~soft_budget_limit.none /\ today.month # 12 /\ today.day # 1) =>
        IF FracGT(FracMul(DailyRate, RemainingDays), Frac(soft_budget_limit.value, 1))
        THEN /\ get_over.kind = "tuple"
             /\ FracEQ(get_over.projected, FracMul(DailyRate, RemainingDays))
             /\ FracEQ(get_over.approx_days, FracInv(soft_budget_limit.value, DailyRate))
        ELSE get_over.kind = "none"

\* December 15, spend 3, limit 4: the companion raised ValueError.
GetProjectedDecember ==
    /\ today.month = 12 /\ today.day = 15
    /\ current_spend = 3
    /\ soft_budget_limit = Limit(4)
    /\ get_over = RaisedError("ValueError")

--------------------------------------------------------------------------
(* Properties of the PrismaClient operations *)

\* The caller gets the exception in this step.
RaisesToCaller == op_result = "none" /\ op_result' = "raised"

\* C27: every operation makes at most max_tries attempts (3, 1 for
\* get_generic_data); the caller gets the exception once the decorator
\* gives up after a failed attempt; every failed attempt, the last one
\* included, has handed a report with its duration and the operation's
\* call type to a failure_handler task; and the step that gives the caller
\* the exception runs none of these tasks and waits for none.
C27_BoundedAttemptsAndReport ==
    [][/\ op_tries' <= (IF op' = "none" THEN 0 ELSE max_tries(op'))
       /\ max_tries(op') <= 3
       /\ RaisesToCaller =>
             /\ op_pc = "failed"
             /\ op_reports' = op_reports
             /\ Len(op_reports) = op_tries
             /\ \A k \in 1..Len(op_reports) :
                   op_reports[k].call_type = op /\ op_reports[k].duration \in Durations
       /\ (op_result' = "returned") => Len(op_reports') = op_tries' - 1]_vars

\* insert_data failed three times and the caller has the exception while
\* none of the three failure_handler tasks has run.
C27_Witness ==
    /\ op = "insert_data"
    /\ op_result = "raised"
    /\ op_tries = 3
    /\ Len(op_reports) = 3
    /\ \A k \in 1..3 : ~op_reports[k].ran /\ op_reports[k].call_type = "insert_data"

\* get_generic_data raised to the caller after its only attempt.
C27_WitnessGeneric ==
    /\ op = "get_generic_data"
    /\ op_result = "raised"
    /\ op_tries = 1
    /\ Len(op_reports) = 1

--------------------------------------------------------------------------
(* Properties of jsonify_object *)

IsNestedField(x) == x.tag \in {"dict", "dict_uncopyable"}

\* What the claim gives for field value x.
Jsonified(x) ==
    IF IsNestedField(x) THEN (IF x.ok THEN JsonDumps(x) ELSE FailedToSerialize) ELSE x

\* C28: jsonify_object never aborts because of one bad field: it returns
\* the record with every nested field replaced by its serialized string, a
\* nested field that fails to serialize replaced by the marker
\* "failed-to-serialize-json", and every other field as it was.
C28_JsonifyIsolatesBadField ==
    json_out # NotJsonified =>
        /\ DOMAIN json_out = DOMAIN json_in
        /\ \A k \in DOMAIN json_in : json_out[k] = Jsonified(json_in[k])

\* For a record whose fields copy.deepcopy can copy the function does what
\* the claim says.
JsonifyIsolatesCopyable ==
    (json_out # NotJsonified /\ ~DeepcopyRaises(json_in)) =>
        /\ DOMAIN json_out = DOMAIN json_in
        /\ \A k \in DOMAIN json_in : json_out[k] = Jsonified(json_in[k])

\* One nested field json.dumps rejects and two scalars: the marker and the
\* two scalars.
JsonifyMarkerWritten ==
    /\ json_in = [a |-> Dict(FALSE, 1), b |-> Scalar(1), c |-> Scalar(2)]
    /\ json_out = [a |-> FailedToSerialize, b |-> Scalar(1), c |-> Scalar(2)]

\* One nested field that cannot be copied and two scalars: TypeError.
JsonifyAborted ==
    /\ json_in = [a |-> DictUncopyable(1), b |-> Scalar(1), c |-> Scalar(2)]
    /\ json_out = JsonifyRaised("TypeError")

--------------------------------------------------------------------------
(* Properties of the streaming hooks *)

\* The hooks whose invocation in cs answered with kind, in invocation order.
RECURSIVE HooksAnswering(_, _)
HooksAnswering(cs, kind) ==
    IF cs = <<>> THEN <<>>
    ELSE LET front == HooksAnswering(SubSeq(cs, 1, Len(cs) - 1), kind)
         IN IF cs[Len(cs)].resp.kind = kind THEN Append(front, cs[Len(cs)].hook) ELSE front

InStreamingIterator ==
    \/ phase = "streaming_iterator"
    \/ (phase = "done" /\ result.of = "async_post_call_streaming_iterator_hook")

\* C29: async_post_call_streaming_iterator_hook invokes the wrapper of
\* each eligible hook once, in registration order, as a fold: the iterator
\* the loop holds is the provider's iterator wrapped by the hooks invoked
\* so far, innermost first, and that is what the function returns (the
\* provider's iterator when no hook is eligible).
C29_IteratorFold ==
    InStreamingIterator =>
        /\ \A k \in 1..(Len(calls) - 1) : calls[k].hook < calls[k + 1].hook
        /\ llm_response = HooksAnswering(calls, "wrap")
        /\ (phase = "done" /\ result.kind = "returned") =>
              /\ result.response = llm_response
              /\ calls = <<>> => result.response = OriginalResponse
              /\ \A hk \in 1..Len(callbacks) :
                    \/ hk \in CalledHooks
                    \/ hk \in gated
                    \/ callbacks[hk].cls = "None"

\* Two hooks, both wrapping: the caller gets the second hook's iterator
\* over the first hook's iterator over the provider's.
C29_Witness ==
    /\ phase = "done" /\ result.of = "async_post_call_streaming_iterator_hook"
    /\ result.kind = "returned"
    /\ Len(calls) = 2
    /\ result.response = <<1, 2>>

\* No eligible hook: the provider's iterator is returned.
C29_WitnessNoHook ==
    /\ phase = "done" /\ result.of = "async_post_call_streaming_iterator_hook"
    /\ result.kind = "returned"
    /\ Len(callbacks) = 2
    /\ calls = <<>>
    /\ result.response = OriginalResponse

InChunkHook ==
    \/ phase \in {"streaming_hook", "streaming_str"}
    \/ /\ phase = "done"
       /\ result.of \in {"async_post_call_streaming_hook", "post_call_streaming_hook"}

\* The per-chunk hooks invoke the handlers in registration order.
ChunkHooksInOrder ==
    InChunkHook => \A k \in 1..(Len(calls) - 1) : calls[k].hook < calls[k + 1].hook

\* The per-chunk hooks return the chunk they were given.
ChunkReturnedAsGiven ==
    (InChunkHook /\ phase = "done" /\ result.kind = "returned") =>
        result.response = OriginalResponse

\* C30: the per-chunk streaming hook passes the chunk through the hooks
\* in registration order and returns the chunk as the hooks transformed
\* it: the chunk returned carries the transformation of every hook that
\* returned a transformed chunk.
C30_ChunkTransformed ==
    InChunkHook =>
        /\ \A k \in 1..(Len(calls) - 1) : calls[k].hook < calls[k + 1].hook
        /\ (phase = "done" /\ result.kind = "returned") =>
              result.response = HooksAnswering(calls, "other")

\* A hook returned a transformed chunk and the caller got the chunk as the
\* provider sent it.
ChunkTransformationDropped ==
    /\ phase = "done" /\ result.of = "async_post_call_streaming_hook"
    /\ result.kind = "returned"
    /\ Len(calls) = 1
    /\ calls[1].resp.kind = "other"
    /\ result.response = OriginalResponse

--------------------------------------------------------------------------
(* Properties of the spend write buffer *)

\* The entries recorded since the flush began, oldest first.
AppendedSince == [k \in 1..(next_id - start_next) |-> Entry(start_next + k - 1)]

IsSuffix(s, t) == Len(s) <= Len(t) /\ SubSeq(t, Len(t) - Len(s) + 1, Len(t)) = s

FlushEnded == fpc = "idle" /\ flush_result.kind # "none"

\* The request ids the step takes out of the buffer.
Removed == Ids(spend_log_transactions) \ Ids(spend_log_transactions')

\* C5: a flush that succeeds on a buffer of n entries has committed the
\* first min(n, MAX_LOGS_PER_INTERVAL) entries and removed exactly those;
\* the rest of the buffer is left as it was, in its order, before whatever
\* was recorded since.
C5_SuccessfulFlushRemovesPrefix ==
    (FlushEnded /\ flush_result = FlushReturned) =>
        LET n == Len(start_buffer)
            m == IF n < MAX_LOGS_PER_INTERVAL THEN n ELSE MAX_LOGS_PER_INTERVAL
        IN /\ Len(logs_to_process) = m
           /\ \A k \in 1..m : RequestId(start_buffer[k]) \in acked
           /\ \A k \in 1..m :
                 \E row \in spendlogs_table : row.request_id = start_buffer[k].request_id
           /\ spend_log_transactions = SubSeq(start_buffer, m + 1, n) \o AppendedSince

\* Five entries, a snapshot of three: the two newest are left.
C5_Witness ==
    /\ FlushEnded
    /\ flush_result = FlushReturned
    /\ flushes = 1
    /\ Len(start_buffer) = 5
    /\ MAX_LOGS_PER_INTERVAL = 3
    /\ spend_log_transactions = <<Entry(4), Entry(5)>>

\* C6: what is recorded while a flush is in progress is behind the snapshot
\* and stays in the buffer, in order, whatever the flush removes and however
\* it ends.
C6_AppendedDuringFlushKept ==
    flushes > 0 =>
        /\ during <= Len(AppendedSince)
        /\ IsSuffix(AppendedSince, spend_log_transactions)
        /\ FlushEnded =>
              \/ spend_log_transactions = start_buffer \o AppendedSince
              \/ spend_log_transactions =
                    SubSeq(start_buffer, Len(logs_to_process) + 1, Len(start_buffer))
                        \o AppendedSince

\* A flush of three entries removed them all; the two entries recorded
\* while it ran are the buffer.
C6_Witness ==
    /\ FlushEnded
    /\ flush_result = FlushReturned
    /\ Len(start_buffer) = 3
    /\ during = 2
    /\ spend_log_transactions = <<Entry(4), Entry(5)>>

\* C7 as stated: an entry leaves the buffer only when the store (or the
\* writer) has acknowledged the commit of that entry.
C7_RemovedOnlyAfterAck == [][Removed \subseteq acked']_vars

\* C7, amended: an entry leaves the buffer only when its commit has been
\* acknowledged, or in the step in which the flush fails for good, which
\* takes the snapshot's entries out of the buffer whether committed or not.
C7_RemovedAfterAckOrFinalFailure ==
    [][\/ Removed \subseteq acked'
       \/ /\ flush_result.kind = "none"
          /\ flush_result'.kind = "raised"
          /\ Removed \subseteq Ids(logs_to_process)]_vars

\* A flush through create_many that succeeded on its second attempt, for
\* two sub-batches: every entry of the snapshot acknowledged, and gone.
C7_Witness ==
    /\ FlushEnded
    /\ flush_result = FlushReturned
    /\ ~use_writer
    /\ Len(sleeps) = 1
    /\ Len(logs_to_process) = 3
    /\ acked = Ids(logs_to_process)
    /\ Ids(spend_log_transactions) \cap Ids(logs_to_process) = {}

\* A failure_handler task of the queue is run in the step.
HandlerRuns == failure_tasks # <<>> /\ failure_tasks' = Tail(failure_tasks)

\* C8 as stated: once a flush has failed for good and its failure_handler
\* task has run, a failure report with call type update_spend is out.
C8_FailureReportEmitted ==
    (FlushEnded /\ flush_result.kind = "raised" /\ failure_tasks = <<>>)
        => "update_spend" \in reported

\* C8, amended: the step in which a flush fails for good removes the
\* snapshot prefix from the buffer, creates the failure_handler task with
\* call type update_spend for the exception, and raises that exception; no
\* other step takes an unacknowledged entry out of the buffer; the
\* failure_handler task emits its report (the alerting task, the service
\* failure hook) when db_exceptions is among the alert types and nothing
\* otherwise.
C8_FinalFailureHandedToHandler ==
    [][/\ (flush_result.kind = "none" /\ flush_result'.kind = "raised") =>
            /\ spend_log_transactions' =
                  SubSeq(spend_log_transactions, Len(logs_to_process) + 1,
                         Len(spend_log_transactions))
            /\ Len(failure_tasks') = Len(failure_tasks) + 1
            /\ failure_tasks'[Len(failure_tasks')] =
                  [call_type |-> "update_spend", exc |-> flush_result'.exc]
            /\ fpc' = "idle"
       /\ ~(Removed \subseteq acked') =>
            /\ flush_result'.kind = "raised"
            /\ Len(failure_tasks') = Len(failure_tasks) + 1
       /\ HandlerRuns =>
            IF db_alerts
            THEN /\ reported' = reported \cup {failure_tasks[1].call_type}
                 /\ alert_tasks' = alert_tasks + 1
            ELSE /\ reported' = reported
                 /\ alert_tasks' = alert_tasks]_vars

\* Four attempts met a connectivity error: the three entries of the
\* snapshot are gone uncommitted, the failure_handler task has run and,
\* db_exceptions being among the alert types, has emitted the report.
C8_Witness ==
    /\ FlushEnded
    /\ flush_result = FlushRaised("connection")
    /\ flushes = 1
    /\ Len(logs_to_process) = 3
    /\ acked = {}
    /\ spendlogs_table = {}
    /\ Ids(spend_log_transactions) \cap Ids(logs_to_process) = {}
    /\ db_alerts
    /\ failure_tasks = <<>>
    /\ reported = {"update_spend"}
    /\ alert_tasks = 1

\* C9: the attempts of a flush are numbered 0..n_retry_times, so there are
\* at most n_retry_times + 1; the wait after the failed attempt i is 2^i;
\* a flush that raised on a connectivity error had made its last attempt,
\* one that raised on another exception ended in that very attempt; a
\* running flush can always go on.
C9_RetryBounded ==
    /\ i \in 0..n_retry_times
    /\ Len(sleeps) = (IF fpc = "sleep" THEN i + 1 ELSE i)
    /\ \A k \in 1..Len(sleeps) : sleeps[k] = 2 ^ (k - 1)
    /\ j < Len(logs_to_process) \/ logs_to_process = <<>>
    /\ flush_result = FlushRaised("connection") => i = n_retry_times
    /\ flush_result.kind # "none" => fpc = "idle"
    /\ fpc # "idle" => ENABLED (CreateManyDone \/ WriterPostDone \/ SleepDone)

\* All the retries were used: waits of 1, 2 and 4, then the raise.
C9_Witness ==
    /\ FlushEnded
    /\ flush_result = FlushRaised("connection")
    /\ i = n_retry_times
    /\ sleeps = <<1, 2, 4>>

\* The flush that raised on an exception other than a connectivity error,
\* in its first attempt, without a wait.
C9_WitnessOther ==
    /\ FlushEnded
    /\ flush_result = FlushRaised("other")
    /\ i = 0
    /\ sleeps = <<>>

--------------------------------------------------------------------------
(* Properties of the end-user spend update *)

\* The retry loop of update_end_user_spend keeps the same bounds.
EndUserRetryBounded ==
    /\ ei \in 0..n_retry_times
    /\ Len(esleeps) = (IF epc = "sleep" THEN ei + 1 ELSE ei)
    /\ \A k \in 1..Len(esleeps) : esleeps[k] = 2 ^ (k - 1)
    /\ eu_result = FlushRaised("connection") => ei = n_retry_times
    /\ eu_result.kind # "none" => epc = "idle"

\* C10: the stored spend of an end user never holds more than the cost of
\* the transactions recorded for that user, each counted once.
C10_SpendAtMostOnce ==
    \A u \in EndUsers : endusertable[u].spend <= recorded[u]

--------------------------------------------------------------------------
(* Properties of the distributed lock *)

Updating == {p \in Pods : pod[p] = "updating"}

\* The periodic tick of p happens in the step.
Ticks(p) == cycle'[p] # cycle[p]

C12_CrashedHolderReplaced ==
    \A p \in Pods :
        (pod[p] = "crashed" /\ lock.owner = p)
            ~> (\E q \in Pods \ {p} : lock = Lease(q))

\* An instance holds the token it took over from a crashed owner.
C12_Witness ==
    \E p \in Pods, q \in Pods :
        /\ pod[p] = "crashed"
        /\ q \in took_over
        /\ Holds(q)
        /\ pod[q] = "updating"

--------------------------------------------------------------------------
(* Properties of the request lifecycle *)

IsPrefix(s, t) == Len(s) <= Len(t) /\ SubSeq(t, 1, Len(s)) = s

LifecyclePaths ==
    {<<"RECEIVED", "PRE_CALL", "DURING_CALL", "DISPATCHED", o, "ACCOUNTED">> :
        o \in {"SUCCESS", "FAILURE"}}
    \cup {<<"RECEIVED", "PRE_CALL", "REJECTED">>,
          <<"RECEIVED", "PRE_CALL", "DURING_CALL", "REJECTED">>}

InTrail(st) == \E k \in 1..Len(trail) : trail[k] = st

\* C13: the request goes through RECEIVED, PRE_CALL, DURING_CALL,
\* DISPATCHED, SUCCESS or FAILURE, ACCOUNTED in that order, or ends in
\* REJECTED after PRE_CALL or DURING_CALL; a request that a hook rejected
\* in pre_call_hook or during_call_hook is REJECTED and has been neither
\* DISPATCHED nor ACCOUNTED, and REJECTED is left only for the next request.
C13_Lifecycle ==
    /\ \E path \in LifecyclePaths : IsPrefix(trail, path)
    /\ trail[Len(trail)] = lifecycle
    /\ rejections # {} =>
          /\ lifecycle = "REJECTED"
          /\ ~InTrail("DISPATCHED")
          /\ ~InTrail("ACCOUNTED")
    /\ (phase = "done" /\ HookRejected /\ result.of \in {"pre_call_hook", "during_call_hook"})
          => result.kind = "raised"
    /\ InTrail("REJECTED") => (lifecycle = "REJECTED" /\ rejections # {})

\* A request rejected by a hook of during_call_hook, after a pre-call phase
\* that let it pass.
C13_Witness ==
    /\ trail = <<"RECEIVED", "PRE_CALL", "DURING_CALL", "REJECTED">>
    /\ rejections = {"during_call_hook"}

\* A request rejected in pre-call by a hook that returned a str.
C13_WitnessPreCall ==
    /\ lifecycle = "PRE_CALL"
    /\ phase = "done"
    /\ result.kind = "raised"
    /\ \E k \in 1..Len(calls) : calls[k].resp.kind = "str"

--------------------------------------------------------------------------
(* Properties of post_call_failure_hook *)

PastStatus == fail_pc \notin {"idle", "status"}
PastAlert == fail_pc \notin {"idle", "status", "alert"}
FailureReturned == fail_pc = "returned"

StatusOf(id) == {e.value : e \in {x \in request_status : x.key = "request_status:" \o id}}

\* C14: once request_data carries a litellm_call_id, no step of
\* post_call_failure_hook, its proxy-only error logging included, puts
\* another one in its place.
C14_CallIdNeverChanges ==
    [][litellm_call_id # Absent => litellm_call_id' = litellm_call_id]_vars

\* C15 as stated: whatever the configuration, once update_request_status
\* is over the cache holds "fail" under the key of the request's
\* litellm_call_id, and no failure callback is scheduled before.
C15_FailAlwaysRecorded ==
    /\ (PastStatus /\ failure.call_id # Absent) => StatusOf(failure.call_id) = {"fail"}
    /\ ~PastStatus => failure_callbacks = <<>>

\* C15, amended: with alerting configured, post_call_failure_hook sets
\* "fail" in the cache under "request_status:" followed by the
\* litellm_call_id that request_data has at entry (nothing, without one)
\* before any failure callback is scheduled; without alerting it sets no
\* cache entry at all.
C15_FailRecordedWithAlerting ==
    /\ ~PastStatus => (failure_callbacks = <<>> /\ request_status = {})
    /\ (PastStatus /\ alerting) =>
          request_status =
             {[key |-> (IF failure.call_id = Absent THEN "request_status:"
                        ELSE "request_status:" \o failure.call_id),
               value |-> "fail"]}
    /\ (PastStatus /\ ~alerting) => request_status = {}

\* With alerting on, the failure of request id-1 is in the cache and the
\* callbacks have been scheduled after it.
C15_Witness ==
    /\ FailureReturned
    /\ alerting
    /\ failure.call_id = "id-1"
    /\ request_status = {[key |-> "request_status:id-1", value |-> "fail"]}
    /\ Len(failure_callbacks) = 2

\* C16: for an HTTPException no alert is scheduled; for another exception,
\* with llm_exceptions among the alert types, exactly one alert is
\* scheduled, of level High; with llm_exceptions not among them, none.
C16_AlertOnlyNonHttp ==
    /\ ~PastAlert => exception_alerts = <<>>
    /\ (PastAlert /\ failure.http) => exception_alerts = <<>>
    /\ (PastAlert /\ ~failure.http /\ llm_alerts) =>
          exception_alerts = <<[level |-> "High", alert_type |-> "llm_exceptions"]>>
    /\ (PastAlert /\ ~llm_alerts) => exception_alerts = <<>>

\* An exception that is no HTTPException, alerts enabled: the one alert.
C16_Witness ==
    /\ FailureReturned
    /\ ~failure.http
    /\ llm_alerts
    /\ Len(exception_alerts) = 1

\* The other case: an HTTPException with alerts enabled, no alert.
C16_WitnessHttp ==
    /\ FailureReturned
    /\ failure.http
    /\ llm_alerts
    /\ exception_alerts = <<>>

\* The failure came from the gateway boundary on an LLM API route.
GatewayFailureOnLlmRoute ==
    /\ failure.request_route = "llm_api"
    /\ failure.http \/ failure.error_type = "auth_error"

\* C17: when post_call_failure_hook has returned, a failure from the
\* gateway boundary (an HTTPException or an auth error) on an LLM API route
\* has been handed once to async_failure_handler and once to the thread on
\* failure_handler; any other failure to neither; and never more than once.
C17_ProxyOnlyErrorLoggedOnce ==
    /\ async_logged <= 1
    /\ sync_logged <= async_logged
    /\ FailureReturned =>
          IF GatewayFailureOnLlmRoute
          THEN async_logged = 1 /\ sync_logged = 1
          ELSE async_logged = 0 /\ sync_logged = 0

\* An auth error that is no HTTPException, on an LLM API route: logged.
C17_Witness ==
    /\ FailureReturned
    /\ failure.request_route = "llm_api"
    /\ ~failure.http
    /\ failure.error_type = "auth_error"
    /\ async_logged = 1
    /\ sync_logged = 1

\* An HTTPException on a management route: not logged.
C17_WitnessOtherRoute ==
    /\ FailureReturned
    /\ failure.request_route = "management"
    /\ failure.http
    /\ async_logged = 0

\* C18: post_call_failure_hook returns with one task created for every
\* callback that is a CustomLogger, in registration order, none of them
\* started; afterwards a task that is pending can start whatever became of
\* the others, raised or never ending.
C18_FailureCallbacksIsolated ==
    [][/\ (fail_pc # "returned" /\ fail_pc' = "returned") =>
            /\ Len(failure_callbacks') =
                  Cardinality({k \in 1..Len(callbacks) : callbacks[k].cls # "None"})
            /\ \A n \in 1..Len(failure_callbacks') :
                  /\ callbacks[failure_callbacks'[n].hook].cls # "None"
                  /\ failure_callbacks'[n].state = "pending"
                  /\ \A o \in 1..(n - 1) :
                        failure_callbacks'[o].hook < failure_callbacks'[n].hook
       /\ fail_pc # "returned" => failure_callbacks = <<>>
       /\ \A n \in 1..Len(failure_callbacks') :
            failure_callbacks'[n].state = "pending" => (ENABLED FailureCallbackStarts(n))']_vars

\* The first callback's task raised, the second one ran to its end.
C18_Witness ==
    /\ FailureReturned
    /\ Len(failure_callbacks) = 2
    /\ failure_callbacks[1].state = "raised"
    /\ failure_callbacks[2].state = "done"

\* The first callback's task never ends, the second one ran to its end.
C18_WitnessHanging ==
    /\ FailureReturned
    /\ Len(failure_callbacks) = 2
    /\ failure_callbacks[1].state = "running"
    /\ failure_callbacks[2].state = "done"

--------------------------------------------------------------------------
(* Properties of insert_data *)

\* The rows of table t stored under the key of data d.
StoredFor(t, d) == Found(db_rows[t], WhereKey(t, d))

\* The last call found a row with its key in the table.
InsertFoundRow ==
    /\ insert_last.table # "none"
    /\ Found(insert_last.before, WhereKey(insert_last.table, insert_last.data)) # {}

\* In table t a call that finds a row with its key leaves the table as it
\* was, and every row is the one created from the data of the first call
\* that stored something under its key.
InsertIfAbsentIn(t) ==
    /\ (InsertFoundRow /\ insert_last.table = t) => db_rows[t] = insert_last.before
    /\ \A d \in first_insert[t] : StoredFor(t, d) = {CreateData(t, d)}

ConfigInsertOverwrites ==
    (InsertFoundRow /\ insert_last.table = "config" /\ insert_last.outcome = "returned")
        => StoredFor("config", insert_last.data) = {CreateData("config", insert_last.data)}

ConfigOverwritten ==
    /\ InsertFoundRow
    /\ insert_last.table = "config"
    /\ insert_last.outcome = "returned"
    /\ db_rows["config"] # insert_last.before

\* No table holds two rows with one key.
InsertKeysUnique ==
    \A t \in InsertTables : \A r1, r2 \in db_rows[t] : r1.id = r2.id => r1 = r2

--------------------------------------------------------------------------
(* Properties of is_valid_api_key *)

\* C32: is_valid_api_key accepts a key exactly when its length is between
\* 20 and 100 characters and it is an sk- key or a hashed key of 64
\* hexadecimal characters; everything else, non-strings included, is
\* rejected.
C32_ValidApiKey ==
    key_valid = (/\ api_key.is_str
                 /\ LengthAsDocumented(api_key)
                 /\ (MatchesSk(api_key) \/ MatchesHashed(api_key)))

\* What the function does: the same with a least length of 3.
ValidApiKeyFromThree ==
    key_valid = (/\ api_key.is_str
                 /\ LengthInRange(api_key)
                 /\ (MatchesSk(api_key) \/ MatchesHashed(api_key)))

\* An sk- key shorter than 20 characters was accepted.
ShortSkKeyAccepted ==
    /\ key_valid
    /\ api_key.sk
    /\ api_key.len < DOC_MIN_KEY_LENGTH

\* Nothing that is not a str is accepted.
NonStringRejected == ~api_key.is_str => ~key_valid

--------------------------------------------------------------------------
(* Properties of the store writes of a flush *)

RECURSIVE Concat(_)
Concat(ss) == IF ss = <<>> THEN <<>> ELSE Head(ss) \o Concat(Tail(ss))

\* The flush wrote to the store itself, not through the external writer.
StorePath == ~use_writer

WriterPathWritesNothing == use_writer => attempt_writes = <<>>

--------------------------------------------------------------------------
(* Properties of the value during_call_hook returns *)

DuringCallReturned ==
    phase = "done" /\ result.of = "during_call_hook" /\ result.kind = "returned"

\* C34: during_call_hook returns the request context it was given on every
\* path on which no hook raises, whatever hooks are registered, those
\* skipped by the should_run gate or by the legacy marker included.
C34_DuringCallReturnsContext == DuringCallReturned => result.value = request

\* Without a guardrail carrying the legacy marker the context given is
\* the value returned.
DuringCallReturnsContextWithoutLegacy ==
    (DuringCallReturned /\ \A hk \in 1..Len(callbacks) : ~LegacyPreCall(hk))
        => result.value = request

\* during_call_hook returned None at a guardrail carrying the legacy
\* marker, for a request context that is not None.
LegacyReturnsNone ==
    /\ DuringCallReturned
    /\ \E hk \in 1..Len(callbacks) : LegacyPreCall(hk)
    /\ request # NoneData
    /\ result.value = NoneData

--------------------------------------------------------------------------
(* Properties of the spend-log table across retries *)

\* C36: when an attempt of a flush fails with a connectivity error after
\* some of its sub-batches were written and the retry writes the whole
\* snapshot again, the spend-log table has at most one row per request id.
C36_NoDuplicateRows == \A n \in DOMAIN table_count : table_count[n] <= 1

\* A flush on the store path went through at a retry, and the retry handed
\* create_many entries the failed attempt had written.
C36_Witness ==
    /\ StorePath
    /\ flush_result = FlushReturned
    /\ i >= 1
    /\ skipped_rows # {}
    /\ \A n \in Ids(logs_to_process) : table_count[n] = 1

\* The table holds a row for exactly the request ids of its rows.
TableCountsRows ==
    \A n \in DOMAIN table_count :
        (table_count[n] > 0) <=> (\E r \in spendlogs_table : r.request_id.v = n)

--------------------------------------------------------------------------
(* Properties of the external-writer path of a flush *)

\* The post of the running flush is answered in this step: with status 200,
\* with another status.
PostAccepted == fpc = "post" /\ fpc' = "idle" /\ flush_result' = FlushReturned
PostNotAccepted == fpc = "post" /\ fpc' = "idle" /\ flush_result' = FlushNotAccepted
\* The flush fails for good in this step.
PostFailsForGood == fpc = "post" /\ fpc' = "idle" /\ flush_result'.kind = "raised"
\* The next flush cycle starts after a flush the writer did not accept.
NextCycleStarts == fpc = "idle" /\ fpc' # "idle" /\ flush_result = FlushNotAccepted

\* A status other than 200 leaves the buffer as it is and ends the flush
\* without retry and without error; the next cycle offers the same entries
\* again.
NotAcceptedKeepsBuffer ==
    /\ PostNotAccepted =>
          /\ spend_log_transactions' = spend_log_transactions
          /\ sleeps' = sleeps /\ i' = i
          /\ failure_tasks' = failure_tasks
    /\ NextCycleStarts => IsPrefix(logs_to_process, logs_to_process')

\* C37 (as stated): on the external-writer path the snapshot prefix is
\* removed from the buffer only when the writer answers with status 200; on
\* any other status the buffer is left unchanged, the flush ends without
\* retry and without error, and the next cycle offers the same entries.
C37_WriterRemovesOnlyOn200 ==
    [][use_writer => /\ (Removed # {} => PostAccepted)
                     /\ NotAcceptedKeepsBuffer]_vars

\* C37 (amended): the prefix is removed only when the writer answers with
\* status 200 or when the flush fails for good; the rest as stated.
C37_WriterRemovesOn200OrFailure ==
    [][use_writer => /\ (Removed # {} => (PostAccepted \/ PostFailsForGood))
                     /\ (PostAccepted => Removed = Ids(logs_to_process))
                     /\ NotAcceptedKeepsBuffer]_vars

\* The writer answered with another status and the flush has ended with
\* the snapshot still at the head of the buffer.
C37_Witness ==
    /\ use_writer
    /\ fpc = "idle"
    /\ flush_result = FlushNotAccepted
    /\ logs_to_process # <<>>
    /\ IsPrefix(logs_to_process, spend_log_transactions)
    /\ sleeps = <<>> /\ failure_tasks = <<>>

\* The second cycle offers the writer the entries of the first again.
WriterOfferedAgain ==
    /\ use_writer
    /\ flushes = 2
    /\ fpc = "post"
    /\ table_count = [n \in 1..MaxEntries |-> 0]
    /\ logs_to_process # <<>>

\* On the external-writer path a flush has failed for good and its snapshot
\* is gone from the buffer.
WriterFailureRemovedPrefix ==
    /\ use_writer
    /\ fpc = "idle"
    /\ flush_result.kind = "raised"
    /\ Ids(logs_to_process) \cap Ids(spend_log_transactions) = {}
    /\ acked = {}

--------------------------------------------------------------------------
(* Properties of two invocations of update_spend_logs *)

BothEnded == \A p \in Invocations : ov_pc[p] \in {"returned", "raised"}

\* C35: when two invocations of update_spend_logs on one buffer overlap, no
\* entry leaves the buffer unless it was in the snapshot of an invocation:
\* entries appended after both snapshots were taken are in the buffer when
\* both have ended.
C35_OverlapKeepsLaterEntries == ov_lost = {}

\* Invocations that do not overlap remove nothing but their snapshots.
NoOverlapNoLoss == ~ov_overlapped => ov_lost = {}

\* Both invocations took the same snapshot, entries were recorded after
\* that, and when both had ended the buffer was empty.
OverlapLostLaterEntries ==
    /\ BothEnded
    /\ ov_overlapped
    /\ ov_logs["a"] = ov_logs["b"]
    /\ ov_lost # {}
    /\ ov_buffer = <<>>

--------------------------------------------------------------------------
(* Properties of the two budget projections together *)

BothProjectionsCalled == is_over # NotCalled /\ get_over # NotCalled

\* C38: the two budget projections agree and are total: for every current
\* spend, soft limit and date, the first day of a month and December
\* included, _get_projected_spend_over_limit completes without error and
\* returns a result exactly when _is_projected_spend_over_limit returns
\* true.
C38_ProjectionsAgree ==
    BothProjectionsCalled =>
        /\ get_over.kind # "raised"
        /\ (get_over.kind = "tuple") <=> (is_over.kind = "returned" /\ is_over.value)

\* Without a soft limit both answer no: False and None.
ProjectionsAgreeWithoutLimit ==
    (BothProjectionsCalled /\ soft_budget_limit.none) =>
        /\ is_over = ReturnedBool(FALSE)
        /\ get_over = ReturnedNone

\* Whenever the companion returns a result the predicate is true.
GetResultImpliesIsOver ==
    (BothProjectionsCalled /\ get_over.kind = "tuple") => is_over.value

\* December 1: the predicate answered and the companion raised.
ProjectionsDisagreeByError ==
    /\ today.month = 12 /\ today.day = 1
    /\ is_over = ReturnedBool(TRUE)
    /\ get_over.kind = "raised"

\* June 15, spend 3, limit 4: the predicate is true and the companion
\* returned None without an error.
ProjectionsDisagreeByAmount ==
    /\ today.month = 6 /\ today.day = 15
    /\ current_spend = 3
    /\ soft_budget_limit = Limit(4)
    /\ is_over = ReturnedBool(TRUE)
    /\ get_over = ReturnedNone

--------------------------------------------------------------------------
(* Properties of jsonify_object: copy, result, idempotence *)

JsonifyReturned == json_out # NotJsonified /\ json_out # JsonifyRaised("TypeError")

\* C39: jsonify_object leaves its input record unchanged, its result has no
\* dict-valued field, and applied to its own result it returns that result.
C39_JsonifyCopiesAndIsIdempotent ==
    /\ [][json_in' = json_in]_vars
    /\ [](JsonifyReturned => \A k \in DOMAIN json_out : ~IsNestedField(json_out[k]))
    /\ [](json_twice # NotJsonified => json_twice = json_out)

\* A record with a nested field json.dumps accepts and one it rejects went
\* through jsonify_object twice.
C39_Witness ==
    /\ json_in = [a |-> Dict(TRUE, 1), b |-> Dict(FALSE, 1), c |-> Scalar(2)]
    /\ json_out = [a |-> JsonDumps(Dict(TRUE, 1)), b |-> FailedToSerialize, c |-> Scalar(2)]
    /\ json_twice = json_out

--------------------------------------------------------------------------
(* Properties of the alerting settings *)

\* A hanging-request check was scheduled for the request.
CheckScheduled(id) ==
    \/ \E c \in hang_pending : c.id = id
    \/ \E c \in hang_checked : c.id = id

StatusWritten(id) == \E e \in status_cache : e.key = RequestStatusKey(id)

\* C40: after any sequence of update_values calls the alerting setting of
\* ProxyLogging and the one of its alerting instance are both unset or both
\* set; hence update_request_status for a request pre_call_hook scheduled a
\* hanging-request check for writes the status to the cache.
C40_AlertingSettingsAgree ==
    /\ alerting = slack_alerting
    /\ \A id \in terminal : CheckScheduled(id) => StatusWritten(id)

\* Alerting was switched on between two requests: no check and no status
\* for the first, a check and a status for the second.
C40_Witness ==
    /\ alerting /\ slack_alerting
    /\ terminal = CallIds
    /\ \E id \in CallIds : ~CheckScheduled(id)
    /\ \E id \in CallIds : CheckScheduled(id) /\ StatusWritten(id)

\* Once set, the alerting setting is not unset by update_values.
AlertingStaysSet == [][alerting => alerting']_vars

====
